---- MODULE Spec2Model ----
(***************************************************************************)
(* Session-to-profile reconciliation of the CAFCOOP auth layer:            *)
(*   - the utilisateurs table and the two provisioners                     *)
(*     (supabase/functions/create-user-profile, pages/api/auth/link-profile)*)
(*   - loadProfile of the useAuth hooks (retry, de-duplication markers)    *)
(*   - the useAuth effect: initAuth, the polling interval, the             *)
(*     onAuthStateChange handler and the cleanup                           *)
(*   - refreshProfile and its caller handleUpdate of pages/profil          *)
(*   - lib/supabase: the client handle, signOut, fetchWithRetry and the    *)
(*     helpers getCurrentSession and getCurrentAuthUser                    *)
(* Time advances in steps of TickMs.  The delays whose order decides       *)
(* behaviour are timed (retry delay, marker eviction, session deadline,    *)
(* initTimeout, polling interval).  The deadline raced against a lookup or *)
(* a provisioning call is a timeout step that may be taken any time after  *)
(* the call.                                                               *)
(* One step of the model is one macrotask of the JavaScript event loop     *)
(* together with the microtasks it triggers.                               *)
(***************************************************************************)
EXTENDS Integers, Sequences, FiniteSets, TLC

VARIABLES
  variant,       \* which hook is mounted: "fixed", "edge", "edgeonly" or
                 \* "original" (hooks/useAuth.js)
  db,            \* public.utilisateurs: the set of stored rows
  reqs,          \* provisioning requests received so far (sequence of records)
  chains,        \* loadProfile calls: one record per top-level call
  markers,       \* loadProfileAttempted.current: the set of cacheKeys
  timers,        \* pending marker-eviction timers: records [key, rem]
  faults,        \* failures the environment may still inject
  authSession,   \* the session the provider holds (persisted under 'cafcoop-auth')
  events,        \* push events emitted by the provider, not yet delivered
  emitted,       \* every push event emitted so far
  browserClient, \* lib/supabase: the cached client handle, 0 when null
  created,       \* number of createClient calls so far (names the handles)
  pull,          \* initAuth: where it is suspended, the getSession result on its way
  initTimer,     \* initTimeout: time left in ms, -1 when not armed
  subscription,  \* handle the onAuthStateChange listener is registered on, 0 if none
  session,       \* useState: session (its user's id, "" when null)
  user,          \* useState: user (the id, "" when null)
  profile,       \* useState: profile
  loading,       \* useState: loading
  error,         \* useState: error
  initAttempted, \* useRef: initAttempted.current
  isMounted,     \* the effect's isMounted flag
  triggers,      \* how many times the host runtime has invoked the effect
  poll,          \* the polling interval of the edge hooks: time left, pollCount
  reported,      \* the error messages handed to the telemetry sink so far
  page,          \* pages/profil and other callers of refreshProfile: where
                 \* handleUpdate is suspended, the calls made so far
  config,        \* the build: is there a window, are the URL and the anon key set
  storage,       \* localStorage: the set of keys present
  calls,         \* direct calls of lib/supabase made by the pages, with their outcome
  signingOut,    \* signOut(): where it is suspended, the handle it holds
  uncaught,      \* errors that left the hook as uncaught exceptions
  fetching       \* fetchWithRetry and the helper that called it: where the
                 \* loop is suspended, what fn has done so far

dbVars == <<db, reqs>>
loaderVars == <<chains, markers, timers>>
gwVars == <<browserClient, created>>
hostVars == <<config, storage, calls, signingOut, uncaught, fetching>>
stateVars == <<session, user, profile, loading, error>>
effectVars == <<initAttempted, isMounted, triggers, poll, pull, initTimer, subscription>>
ctlVars == <<stateVars, effectVars>>
providerVars == <<authSession, events, emitted>>
vars == <<variant, db, reqs, chains, markers, timers, faults, authSession, events,
          emitted, browserClient, created, pull, initTimer, subscription, session, user,
          profile, loading, error, initAttempted, isMounted, triggers, poll, reported,
          page, config, storage, calls, signingOut, uncaught, fetching>>

-----------------------------------------------------------------------------
(* Bounds of the model *)

MaxEnvReqs == 2      \* provisioning requests sent directly to a provisioner
MaxProvFaults == 1   \* datastore failures while only the provisioners run
MaxChains == 2       \* top-level loadProfile calls
MaxLoadFaults == 1   \* failures injected while two loads overlap
MaxFaults == 3       \* failures injected into a single load
MaxEvents == 2       \* push events emitted by the provider
MaxCtlFaults == 1    \* failures injected while the controller runs
MaxInitFaults == 2   \* failures injected from mount to cleanup
MaxRefreshFaults == 1 \* failures injected while the profile is refreshed
MaxRefresh == 1      \* direct calls of refreshProfile
MaxUpdates == 1      \* submissions of the profile form
MaxTriggers == 2     \* invocations of the effect by the host runtime
MaxCalls == 4        \* direct calls of lib/supabase by the pages
MaxGwFaults == 1     \* rejections of the provider's signOut
MaxArgFaults == 1    \* failures injected into a load called with any argument
MaxBootFaults == 1   \* failures injected while a hook starts under any build
MaxRemountFaults == 1 \* failures injected while the effect is invoked twice
MaxFetchFaults == 3  \* failures of the function handed to fetchWithRetry
MaxRetriesArg == 2   \* the largest maxRetries handed to fetchWithRetry
MaxHangFaults == 2   \* failures and expired deadlines while the provider may stay silent

(* Program constants; durations in milliseconds *)

maxRetries == 2
RetryDelayMs == 1000
EdgeOnlyRetryDelayMs == 1500
MarkerWindowMs == 5000
SessionTimeoutMs == 5000
InitTimeoutFixedMs == 10000
InitTimeoutEdgeMs == 15000
PollIntervalMs == 2000
maxPolls == 10
DefaultMaxRetries == 2

\* the step of the clock: the greatest common divisor of the durations of the
\* mounted hook
TickMs(v) == IF v = "edgeonly" THEN 500 ELSE 1000

-----------------------------------------------------------------------------
(* Values *)

AuthIds == {"u1", "u2"}
EmptyId == ""

\* the e-mail address the identity provider holds for an auth user
AuthEmail(id) == IF id = "u1" THEN "A@x.com" ELSE "b@x.com"

\* String.prototype.toLowerCase on the addresses of the model
toLowerCase(e) == IF e = "A@x.com" THEN "a@x.com" ELSE e

NoRow == [null |-> TRUE]
NoMsg == <<>>

\* error messages, as the words they are made of
AbortedMsg == <<"signal", "is", "aborted">>
NetworkMsg == <<"Failed", "to", "fetch">>
DbErrorMsg == <<"connection", "refused">>
DuplicateMsg == <<"duplicate", "key", "value">>
ProfileTimeoutMsg == <<"Profile", "query", "timeout">>
LinkTimeoutMsg == <<"Link", "profile", "API", "timeout">>
EdgeTimeoutMsg == <<"Edge", "Function", "timeout">>
EdgeMissingMsg == <<"Missing", "required", "fields">>
LinkMissingMsg == <<"id_auth", "et", "email", "requis">>
LinkCheckMsg == <<"Erreur", "verification", "profil">>
LinkDuplicateMsg == <<"Un", "profil", "avec", "cet", "email", "existe">>
CreateFailedMsg == <<"Echec", "creation", "profil">>
EdgeFailedMsg == <<"Erreur", "Edge", "Function">>

\* err.message?.includes('aborted')
IncludesAborted(msg) == \E i \in DOMAIN msg : msg[i] = "aborted"

-----------------------------------------------------------------------------
(* The datastore: public.utilisateurs *)

\* select('*').eq('id_auth', id): the rows of an identity
RowsOf(id) == {r \in db : r.id_auth = id}

\* .maybeSingle(): the row, or null when there is none
maybeSingle(id) == IF RowsOf(id) = {} THEN NoRow ELSE CHOOSE r \in RowsOf(id) : TRUE

\* a row already stored for a returning user (created outside this layer)
ExistingRow(id) ==
  [id_utilisateur |-> 1, id_auth |-> id, email |-> toLowerCase(AuthEmail(id)),
   nom |-> "Daed", prenom |-> "Shemsu", telephone |-> "", role |-> "admin",
   statut |-> "actif"]

\* a table without the constraint: no insert is refused
NoConstraint(id) == FALSE

\* the uniqueness constraint on utilisateurs.id_auth: an insert for an identity
\* that already has a row is refused with SQLSTATE 23505
UniqueViolation(id) == RowsOf(id) # {}

\* the primary key the table generates for a new row
NewId == Cardinality(db) + 1

\* insert(fields).select().single(): the stored row
Stored(fields) == [fields EXCEPT !.id_utilisateur = NewId]

-----------------------------------------------------------------------------
(* Provisioners.  A request is                                              *)
(*   [prov, id_auth, email, role, owner, pc, resp]                          *)
(* prov: "edge" (create-user-profile) or "link" (/api/auth/link-profile);   *)
(* owner: the loadProfile call that sent it, 0 for a direct request;        *)
(* pc: "check", "insert", "refetch" (the next datastore call) or "sent".    *)

NoResp == [null |-> TRUE]

Response(status, ok, row, existed, msg, key) ==
  [status |-> status, ok |-> ok,
   user |-> IF key = "user" THEN row ELSE NoRow,
   profile |-> IF key = "profile" THEN row ELSE NoRow,
   existed |-> existed, error |-> msg]

\* the body key under which each provisioner returns the row
RowKey(prov) == IF prov = "edge" THEN "profile" ELSE "user"

MissingFieldsIdOnly(id, email) == id = EmptyId

\* if (!id_auth || !email) -> 400
MissingFields(id, email) == id = EmptyId \/ email = ""

MissingMsg(prov) == IF prov = "edge" THEN EdgeMissingMsg ELSE LinkMissingMsg

\* the request as it stands after parsing and validation
Receive(prov, id, email, role, owner) ==
  [prov |-> prov, id_auth |-> id, email |-> email, role |-> role, owner |-> owner,
   pc |-> IF MissingFields(id, email) THEN "sent" ELSE "check",
   resp |-> IF MissingFields(id, email)
              THEN Response(400, FALSE, NoRow, FALSE, MissingMsg(prov), RowKey(prov))
              ELSE NoResp,
   dbError |-> FALSE, raced |-> FALSE]

\* the row each provisioner inserts
EdgeNewProfile(q) ==
  [id_utilisateur |-> 0, id_auth |-> q.id_auth, email |-> q.email, nom |-> "",
   prenom |-> "", telephone |-> "", role |-> q.role, statut |-> "actif"]

\* a route that stores new rows as inactive
LinkNewUserInactive(q) ==
  [id_utilisateur |-> 0, id_auth |-> q.id_auth, email |-> toLowerCase(q.email),
   nom |-> "", prenom |-> "", telephone |-> "null", role |-> q.role,
   statut |-> "inactif"]

LinkNewUser(q) ==
  [id_utilisateur |-> 0, id_auth |-> q.id_auth, email |-> toLowerCase(q.email),
   nom |-> "", prenom |-> "", telephone |-> "null", role |-> q.role,
   statut |-> "actif"]

Reply(i, resp) == reqs' = [reqs EXCEPT ![i].pc = "sent", ![i].resp = resp]

\* create-user-profile: step 3, the existence check
EdgeCheck(i) ==
  /\ i \in DOMAIN reqs /\ reqs[i].prov = "edge" /\ reqs[i].pc = "check"
  /\ IF maybeSingle(reqs[i].id_auth) # NoRow
       THEN Reply(i, Response(200, TRUE, maybeSingle(reqs[i].id_auth), TRUE, NoMsg, "profile"))
       ELSE reqs' = [reqs EXCEPT ![i].pc = "insert"]
  /\ UNCHANGED <<variant, hostVars, page, reported, db, loaderVars, faults, providerVars, gwVars, ctlVars>>

\* what create-user-profile does when the insert reports a duplicate key
EdgeOnDuplicate(q) == [q EXCEPT !.pc = "refetch", !.raced = TRUE]

\* create-user-profile: step 4, the insert
EdgeInsert(i) ==
  /\ i \in DOMAIN reqs /\ reqs[i].prov = "edge" /\ reqs[i].pc = "insert"
  /\ IF UniqueViolation(reqs[i].id_auth)
       THEN /\ reqs' = [reqs EXCEPT ![i] = EdgeOnDuplicate(reqs[i])]
            /\ db' = db
       ELSE /\ db' = db \cup {Stored(EdgeNewProfile(reqs[i]))}
            /\ Reply(i, Response(201, TRUE, Stored(EdgeNewProfile(reqs[i])), FALSE, NoMsg, "profile"))
  /\ UNCHANGED <<variant, hostVars, page, reported, loaderVars, faults, providerVars, gwVars, ctlVars>>

\* create-user-profile: the re-fetch after a duplicate key (.single())
EdgeRefetch(i) ==
  /\ i \in DOMAIN reqs /\ reqs[i].prov = "edge" /\ reqs[i].pc = "refetch"
  /\ IF maybeSingle(reqs[i].id_auth) # NoRow
       THEN Reply(i, Response(200, TRUE, maybeSingle(reqs[i].id_auth), TRUE, NoMsg, "profile"))
       ELSE Reply(i, Response(500, FALSE, NoRow, FALSE, DuplicateMsg, "profile"))
  /\ UNCHANGED <<variant, hostVars, page, reported, db, loaderVars, faults, providerVars, gwVars, ctlVars>>

\* link-profile: step 1, the existence check
LinkCheck(i) ==
  /\ i \in DOMAIN reqs /\ reqs[i].prov = "link" /\ reqs[i].pc = "check"
  /\ IF maybeSingle(reqs[i].id_auth) # NoRow
       THEN Reply(i, Response(200, TRUE, maybeSingle(reqs[i].id_auth), FALSE, NoMsg, "user"))
       ELSE reqs' = [reqs EXCEPT ![i].pc = "insert"]
  /\ UNCHANGED <<variant, hostVars, page, reported, db, loaderVars, faults, providerVars, gwVars, ctlVars>>

\* what link-profile does when the insert reports a duplicate key
LinkOnDuplicate(q) ==
  [q EXCEPT !.pc = "sent", !.raced = TRUE,
            !.resp = Response(409, FALSE, NoRow, FALSE, LinkDuplicateMsg, "user")]

\* link-profile: step 2, the insert
LinkInsert(i) ==
  /\ i \in DOMAIN reqs /\ reqs[i].prov = "link" /\ reqs[i].pc = "insert"
  /\ IF UniqueViolation(reqs[i].id_auth)
       THEN /\ reqs' = [reqs EXCEPT ![i] = LinkOnDuplicate(reqs[i])]
            /\ db' = db
       ELSE /\ db' = db \cup {Stored(LinkNewUser(reqs[i]))}
            /\ Reply(i, Response(201, TRUE, Stored(LinkNewUser(reqs[i])), FALSE, NoMsg, "user"))
  /\ UNCHANGED <<variant, hostVars, page, reported, loaderVars, faults, providerVars, gwVars, ctlVars>>

\* a datastore call of a provisioner fails with an error other than 23505
DbErrorResponse(q) ==
  IF q.prov = "edge"
    THEN Response(500, FALSE, NoRow, FALSE,
                  IF q.pc = "refetch" THEN DuplicateMsg ELSE DbErrorMsg, "profile")
    ELSE Response(500, FALSE, NoRow, FALSE,
                  IF q.pc = "check" THEN LinkCheckMsg ELSE DbErrorMsg, "user")

ProvDbError(i) ==
  /\ i \in DOMAIN reqs /\ reqs[i].pc \in {"check", "insert", "refetch"}
  /\ faults > 0
  /\ faults' = faults - 1
  /\ reqs' = [reqs EXCEPT ![i].pc = "sent", ![i].resp = DbErrorResponse(reqs[i]),
                          ![i].dbError = TRUE]
  /\ UNCHANGED <<variant, hostVars, page, reported, db, loaderVars, providerVars, gwVars, ctlVars>>

\* a provisioning request sent from outside the hooks (signup webhook, curl)
EnvRequest(prov, id, email) ==
  /\ Cardinality({i \in DOMAIN reqs : reqs[i].owner = 0}) < MaxEnvReqs
  /\ reqs' = Append(reqs, Receive(prov, id, email, "agriculteur", 0))
  /\ UNCHANGED <<variant, hostVars, page, reported, db, loaderVars, faults, providerVars, gwVars, ctlVars>>

\* the edge function create-user-profile
EdgeFunction ==
  \/ \E i \in DOMAIN reqs : EdgeCheck(i)
  \/ \E i \in DOMAIN reqs : EdgeInsert(i)
  \/ \E i \in DOMAIN reqs : EdgeRefetch(i)

\* the API route /api/auth/link-profile
LinkProfile ==
  \/ \E i \in DOMAIN reqs : LinkCheck(i)
  \/ \E i \in DOMAIN reqs : LinkInsert(i)

Provisioners ==
  \/ EdgeFunction
  \/ LinkProfile
  \/ \E i \in DOMAIN reqs : ProvDbError(i)

-----------------------------------------------------------------------------
(* lib/supabase: the cached client handle *)

\* the build-time configuration: NEXT_PUBLIC_SUPABASE_URL and
\* NEXT_PUBLIC_SUPABASE_ANON_KEY are set or not, the code runs in a browser
\* (window is defined) or on the server
Configs == [url : BOOLEAN, key : BOOLEAN, window : BOOLEAN]
FullConfig == [url |-> TRUE, key |-> TRUE, window |-> TRUE]

ServerSideMsg == <<"getSupabaseBrowser", "appele", "cote", "serveur">>
UrlRequiredMsg == <<"supabaseUrl", "is", "required">>
KeyRequiredMsg == <<"supabaseKey", "is", "required">>

createClientNeverThrows(cfg) == NoMsg

\* createClient(SUPABASE_URL, SUPABASE_ANON_KEY, options) of the provider's
\* library: the message it throws, NoMsg when it constructs a client
createClientThrows(cfg) ==
  IF ~cfg.url THEN UrlRequiredMsg
  ELSE IF ~cfg.key THEN KeyRequiredMsg
  ELSE NoMsg

\* the error getSupabaseBrowser() throws in the present state, NoMsg when it
\* returns a handle: no window, or no cached handle and createClient throws
GatewayError ==
  IF ~config.window THEN ServerSideMsg
  ELSE IF browserClient # 0 THEN NoMsg
  ELSE createClientThrows(config)

getSupabaseBrowserAlwaysNew ==
  /\ GatewayError = NoMsg
  /\ browserClient' = created + 1
  /\ created' = created + 1

\* getSupabaseBrowser() returning normally: the cached handle, constructed
\* on first demand
getSupabaseBrowser ==
  /\ GatewayError = NoMsg
  /\ browserClient' = IF browserClient = 0 THEN created + 1 ELSE browserClient
  /\ created' = IF browserClient = 0 THEN created + 1 ELSE created

\* the keys of localStorage, as the pieces the code tests them by
AppKey == <<"cafcoop", "-auth">>
ProviderKey == <<"sb-", "projectRef", "-auth-token">>
LegacyKey == <<"supabase", ".auth.token">>
ForeignKey == <<"theme">>
StorageKeys == {AppKey, ProviderKey, LegacyKey, ForeignKey}

startsWith(k, w) == k[1] = w
includes(k, w) == \E i \in DOMAIN k : k[i] = w

ResetRemovesSbOnly(k) == startsWith(k, "sb-")

\* the keys resetSupabaseClient() removes
ResetRemoves(k) == startsWith(k, "sb-") \/ includes(k, "supabase") \/ includes(k, "cafcoop")

\* the keys signOut() removes before it calls the provider
SignOutRemoves(k) ==
  \/ k = AppKey
  \/ k = ProviderKey
  \/ startsWith(k, "sb-") \/ includes(k, "supabase")

\* createClient's options: persistSession under storageKey 'cafcoop-auth'
Persisted(s) == IF s = EmptyId THEN {} ELSE {AppKey}

-----------------------------------------------------------------------------
(* What the controller does when a loadProfile call it awaits settles *)

ProfileLoadMsg == <<"Erreur", "chargement", "profil">>
InitFailedMsg == <<"Erreur", "initialisation">>
InitTimeoutMsg == <<"Timeout", "initialisation", "auth">>
SessionTimeoutMsg == <<"getSession", "timeout">>
MissingIdMsg == <<"Missing", "authUserId">>
PollFailedMsg == <<"Impossible", "de", "charger", "le", "profil">>
NoUserMsg == <<"No", "user", "to", "refresh">>
RefreshFailedMsg == <<"Erreur", "rafraichissement", "profil">>

\* err.message || '<fallback>'
MessageOr(msg, fallback) == IF msg = NoMsg THEN fallback ELSE msg

NoOut == [null |-> TRUE]
Ret(row) == [kind |-> "ret", row |-> row, msg |-> NoMsg]
Thr(msg) == [kind |-> "thr", row |-> NoRow, msg |-> msg]

InitLoadedLogsOut(out) ==
  /\ profile' = IF isMounted /\ out.kind = "ret" THEN out.row ELSE profile
  /\ error' = IF isMounted /\ out.kind = "thr"
                THEN MessageOr(out.msg, ProfileLoadMsg) ELSE error
  /\ loading' = IF isMounted THEN FALSE ELSE loading
  /\ session' = IF out.kind = "thr" THEN EmptyId ELSE session
  /\ user' = IF out.kind = "thr" THEN EmptyId ELSE user
  /\ initTimer' = -1
  /\ pull' = [pull EXCEPT !.pc = "done"]
  /\ UNCHANGED <<initAttempted, isMounted, triggers, poll, subscription>>

\* initAuth from `await loadProfile(currentSession.user.id)` to its end
InitLoaded(out) ==
  /\ profile' = IF isMounted /\ out.kind = "ret" THEN out.row ELSE profile
  /\ error' = IF isMounted /\ out.kind = "thr"
                THEN MessageOr(out.msg, ProfileLoadMsg) ELSE error
  /\ loading' = IF isMounted THEN FALSE ELSE loading
  /\ initTimer' = -1
  /\ pull' = [pull EXCEPT !.pc = "done"]
  /\ UNCHANGED <<session, user, initAttempted, isMounted, triggers, poll, subscription>>

\* the SIGNED_IN handler from `await loadProfile(newSession.user.id)` to its end
PushLoaded(out) ==
  /\ profile' = IF isMounted /\ out.kind = "ret" THEN out.row ELSE profile
  /\ error' = IF ~isMounted THEN error
              ELSE IF out.kind = "ret" THEN NoMsg ELSE out.msg
  /\ loading' = IF isMounted THEN FALSE ELSE loading
  /\ UNCHANGED <<session, user, effectVars>>

\* refreshProfile from `await loadProfile(user.id)` to its end
RefreshLoaded(out) ==
  /\ profile' = IF out.kind = "ret" THEN out.row ELSE profile
  /\ error' = IF out.kind = "ret" THEN NoMsg ELSE MessageOr(out.msg, RefreshFailedMsg)
  /\ loading' = FALSE
  /\ UNCHANGED <<session, user, effectVars>>

\* no polling interval is armed
NoPoll == [rem |-> -1, count |-> 0]

\* the polling callback from `await loadProfile(session.user.id)` to its end
PollLoaded(out) ==
  LET got == isMounted /\ out.kind = "ret" /\ out.row # NoRow IN
  /\ profile' = IF got THEN out.row ELSE profile
  /\ error' = IF got THEN NoMsg ELSE error
  /\ loading' = IF got THEN FALSE ELSE loading
  /\ poll' = IF got THEN [poll EXCEPT !.rem = -1] ELSE poll
  /\ UNCHANGED <<session, user, initAttempted, isMounted, triggers, pull, initTimer,
                 subscription>>

\* what the caller of a chain hands to the telemetry sink once the chain has
\* moved: the handlers that catch a failed load call ErrorLog.handled, initAuth
\* only writes to the console
CallerReports(ch) ==
  IF ch.pc = "done" /\ ch.owner \in {"push", "refresh"} /\ ch.out.kind = "thr"
    THEN {ch.out.msg}
    ELSE {}

\* what the caller of a chain does once the chain has moved
CallerGoesOn(ch) ==
  IF ch.pc = "done" /\ ch.owner = "init" THEN InitLoaded(ch.out)
  ELSE IF ch.pc = "done" /\ ch.owner = "push" THEN PushLoaded(ch.out)
  ELSE IF ch.pc = "done" /\ ch.owner = "poll" THEN PollLoaded(ch.out)
  ELSE IF ch.pc = "done" /\ ch.owner = "refresh" THEN RefreshLoaded(ch.out)
  ELSE UNCHANGED ctlVars

-----------------------------------------------------------------------------
(* loadProfile.  A top-level call loadProfile(id) and the retries it makes  *)
(* recursively form one chain:                                              *)
(*   lvl   retryCount of the frame that is running                          *)
(*   via   via[k] tells where frame k-1 awaits frame k: in its try block    *)
(*         ("try", the retry after a returned error) or in its catch block  *)
(*         ("catch", the retry after a thrown error)                        *)
(*   pc    where the running frame is suspended                             *)
(*   rem   time left of the retry delay, in ms                              *)
(*   resp  the lookup result on its way back to the browser                 *)
(*   req   the provisioning request the frame awaits                        *)
(*   out   the value or error the top-level call settled with               *)
(* The other fields record what happened, for the properties: whether the  *)
(* call returned at the de-duplication test (suppressed), whether the       *)
(* marker of (id, 0) was present when it was made (inWindow), the call      *)
(* whose marker that was (by), the stored row when it was made (rowAtStart), *)
(* whether the effect was live when it was made (live) and counts of the    *)
(* lookups, provisioning calls and failures of the chain.                   *)

IdleChain ==
  [pc |-> "idle", id |-> EmptyId, owner |-> "none", lvl |-> 0, via |-> <<>>,
   rem |-> 0, resp |-> NoResp, req |-> 0, out |-> NoOut,
   suppressed |-> FALSE, inWindow |-> FALSE, by |-> 0, rowAtStart |-> NoRow,
   nLookup |-> 0, nProv |-> 0, nAborted |-> 0, nFault |-> 0,
   firstTimedOut |-> FALSE, live |-> FALSE]

\* const cacheKey = `${authUserId}-${retryCount}`
cacheKey(id, retryCount) == <<id, retryCount>>

\* the provisioner each hook calls
ProvisionerOf(v) == IF v \in {"fixed", "original"} THEN "link" ELSE "edge"

\* the delay before a retry
DelayOf(v) == IF v = "edgeonly" THEN EdgeOnlyRetryDelayMs ELSE RetryDelayMs

\* hooks/useAuth.js has no markers, no retries and no raced timers
Guarded(v) == v # "original"

\* the condition under which a catch block retries
CatchRetries(v, msg, retryCount) ==
  IF v = "edgeonly"
    THEN retryCount < maxRetries
    ELSE Guarded(v) /\ IncludesAborted(msg) /\ retryCount < maxRetries

\* the condition under which a returned profileError is retried
ErrorRetries(msg, retryCount) ==
  Guarded(variant) /\ IncludesAborted(msg) /\ retryCount < maxRetries

\* Frame l settles with outcome o: its finally block arms the eviction of its
\* marker, and the frame that awaits it goes on.  A frame awaiting in its try
\* block catches what the callee throws; one awaiting in its catch block lets
\* it through.
RECURSIVE Unwind(_, _, _, _)
Unwind(v, l, via, o) ==
  IF l = 0
    THEN [pc |-> "done", lvl |-> 0, out |-> o, armed |-> {0}, logged |-> {}]
    ELSE IF via[l] = "try" /\ o.kind = "thr" /\ CatchRetries(v, o.msg, l - 1)
      THEN [pc |-> "delayCatch", lvl |-> l - 1, out |-> NoOut, armed |-> {l},
            logged |-> {}]
      ELSE LET up == Unwind(v, l - 1, via, o)
           IN [up EXCEPT !.armed = @ \cup {l}]

\* An error is thrown inside the try block of frame l; a catch block that
\* does not retry reports the error (ProfileLog.loadFailure, ErrorLog.handled)
\* before it throws it again
Catch(v, l, via, msg) ==
  IF CatchRetries(v, msg, l)
    THEN [pc |-> "delayCatch", lvl |-> l, out |-> NoOut, armed |-> {}, logged |-> {}]
    ELSE [Unwind(v, l, via, Thr(msg)) EXCEPT !.logged = {msg}]

\* the chain after its running frame moved as `u` tells
Moved(ch, u) ==
  [ch EXCEPT !.pc = u.pc, !.lvl = u.lvl, !.out = u.out,
             !.via = SubSeq(@, 1, u.lvl),
             !.rem = IF u.pc = "delayCatch" THEN DelayOf(variant) ELSE 0,
             !.resp = NoResp, !.req = 0]

\* finally { setTimeout(() => loadProfileAttempted.current.delete(cacheKey), 5000) }
Armed(id, levels) ==
  IF Guarded(variant)
    THEN {[key |-> cacheKey(id, k), rem |-> MarkerWindowMs] : k \in levels}
    ELSE {}

\* the running frame of chain c moves as `u` tells, `hist` being the chain
\* with this step's bookkeeping done
Step(c, hist, u) ==
  /\ chains' = [chains EXCEPT ![c] = Moved(hist, u)]
  /\ timers' = timers \cup Armed(chains[c].id, u.armed)
  /\ reported' = reported \cup u.logged \cup CallerReports(Moved(hist, u))
  /\ CallerGoesOn(Moved(hist, u))

\* the first call slot not yet used
FreeChain(c) == chains[c].pc = "idle" /\ \A d \in 1..(c - 1) : chains[d].pc # "idle"

Holds(d, id) == chains[d].pc # "idle" /\ chains[d].id = id /\ ~chains[d].suppressed

\* the latest call that added the marker of (id, 0)
HolderOf(id) ==
  IF \E d \in 1..MaxChains : Holds(d, id)
    THEN CHOOSE d \in 1..MaxChains :
           Holds(d, id) /\ \A e \in 1..MaxChains : Holds(e, id) => e <= d
    ELSE 0

\* a loader whose de-duplication test never finds the marker
NeverAttempted(id, retryCount) == FALSE

\* if (loadProfileAttempted.current.has(cacheKey)) return null
AlreadyAttempted(id, retryCount) ==
  Guarded(variant) /\ cacheKey(id, retryCount) \in markers

\* a call with an empty id returns null before its try block (not in the
\* edge-only hook, which has no such test)
ReturnsEarly(id) == variant # "edgeonly" /\ id = EmptyId

\* loadProfile(id, 0) settles before its first await
SettlesAtOnce(id) == AlreadyAttempted(id, 0) \/ ReturnsEarly(id)

\* loadProfile(id, 0), up to its first await
Enter(c, id, owner) ==
  LET base == [IdleChain EXCEPT !.id = id, !.owner = owner,
                                !.inWindow = (cacheKey(id, 0) \in markers),
                                !.rowAtStart = maybeSingle(id), !.live = isMounted] IN
  IF AlreadyAttempted(id, 0)
    THEN /\ chains' = [chains EXCEPT ![c] =
                [base EXCEPT !.pc = "done", !.out = Ret(NoRow), !.suppressed = TRUE,
                             !.by = HolderOf(id)]]
         /\ UNCHANGED <<markers, timers, gwVars, reported>>
    ELSE /\ markers' = IF Guarded(variant) THEN markers \cup {cacheKey(id, 0)} ELSE markers
         /\ timers' = timers
         /\ reported' = IF ReturnsEarly(id) THEN reported \cup {MissingIdMsg} ELSE reported
         /\ IF ReturnsEarly(id)
              THEN /\ chains' = [chains EXCEPT ![c] =
                          [base EXCEPT !.pc = "done", !.out = Ret(NoRow)]]
                   /\ UNCHANGED gwVars
              ELSE /\ chains' = [chains EXCEPT ![c] =
                          IF variant = "edgeonly"
                            THEN [base EXCEPT !.pc = "getUser"]
                            ELSE [base EXCEPT !.pc = "lookup", !.nLookup = 1]]
                   /\ getSupabaseBrowser

\* a caller of the loader other than the controller
StartLoad(c, id) ==
  /\ FreeChain(c)
  /\ Enter(c, id, "caller")
  /\ UNCHANGED <<variant, hostVars, page, dbVars, faults, providerVars, ctlVars>>

\* the datastore answers the lookup:
\* .from('utilisateurs').select('*').eq('id_auth', id).maybeSingle()
ServeLookup(c) ==
  /\ chains[c].pc = "lookup" /\ chains[c].resp = NoResp
  /\ chains' = [chains EXCEPT ![c].resp = [row |-> maybeSingle(chains[c].id)]]
  /\ UNCHANGED <<variant, hostVars, page, reported, dbVars, markers, timers, faults, providerVars, gwVars, ctlVars>>

\* the lookup result reaches the browser without error
LookupResume(c) ==
  /\ chains[c].pc = "lookup" /\ chains[c].resp # NoResp
  /\ IF chains[c].resp.row # NoRow
       THEN Step(c, chains[c],
                 Unwind(variant, chains[c].lvl, chains[c].via, Ret(chains[c].resp.row)))
       ELSE /\ chains' = [chains EXCEPT ![c].pc = "getUser", ![c].resp = NoResp]
            /\ UNCHANGED <<timers, reported, ctlVars>>
  /\ UNCHANGED <<variant, hostVars, page, dbVars, markers, faults, providerVars, gwVars>>

\* the lookup fails: how = "error" is a returned { error }, "reject" a rejected promise
LookupFails(c, how, msg) ==
  /\ chains[c].pc = "lookup" /\ faults > 0
  /\ faults' = faults - 1
  /\ LET hist == [chains[c] EXCEPT !.nFault = @ + 1,
                    !.nAborted = IF IncludesAborted(msg) THEN @ + 1 ELSE @] IN
     IF how = "error" /\ ErrorRetries(msg, chains[c].lvl)
       THEN /\ chains' = [chains EXCEPT ![c] =
                  [hist EXCEPT !.pc = "delayTry", !.rem = DelayOf(variant), !.resp = NoResp]]
            /\ UNCHANGED <<timers, reported, ctlVars>>
       ELSE Step(c, hist, Catch(variant, chains[c].lvl, chains[c].via, msg))
  /\ UNCHANGED <<variant, hostVars, page, dbVars, markers, providerVars, gwVars>>

\* the timer raced against the lookup wins: reject(new Error('Profile query timeout'))
LookupTimeout(c) ==
  /\ Guarded(variant)
  /\ chains[c].pc = "lookup" /\ faults > 0
  /\ faults' = faults - 1
  /\ Step(c, [chains[c] EXCEPT !.nFault = @ + 1,
                 !.firstTimedOut = IF chains[c].lvl = 0 THEN TRUE ELSE @],
          Catch(variant, chains[c].lvl, chains[c].via, ProfileTimeoutMsg))
  /\ UNCHANGED <<variant, hostVars, page, dbVars, markers, providerVars, gwVars>>

\* authUser?.email || ''
EmailOf(authUser) == IF authUser = EmptyId THEN "" ELSE AuthEmail(authUser)

\* the role the hooks ask for
RequestedRole == "agriculteur"

\* auth.getUser() resolves and the provisioning request is sent
GetUserResume(c) ==
  /\ chains[c].pc = "getUser"
  /\ reqs' = Append(reqs, Receive(ProvisionerOf(variant), chains[c].id,
                                  EmailOf(authSession), RequestedRole, c))
  /\ chains' = [chains EXCEPT ![c].pc = "prov", ![c].req = Len(reqs) + 1,
                              ![c].nProv = @ + 1]
  /\ UNCHANGED <<variant, hostVars, page, reported, db, markers, timers, faults, providerVars, gwVars, ctlVars>>

\* response.ok: an HTTP status in 200..299
ResponseOk(resp) == resp.status >= 200 /\ resp.status <= 299

FailedMsg(v) == IF v = "edgeonly" THEN EdgeFailedMsg ELSE CreateFailedMsg

\* the row each hook takes from the provisioner's answer
Taken(v, resp) == IF v \in {"fixed", "original"} THEN resp.user ELSE resp.profile

\* the provisioner's answer reaches the browser
ProvResume(c) ==
  /\ chains[c].pc = "prov" /\ reqs[chains[c].req].pc = "sent"
  /\ LET resp == reqs[chains[c].req].resp IN
     IF ~ResponseOk(resp) \/ ~resp.ok
       THEN Step(c, chains[c], Catch(variant, chains[c].lvl, chains[c].via,
                                     MessageOr(resp.error, FailedMsg(variant))))
       ELSE Step(c, chains[c], Unwind(variant, chains[c].lvl, chains[c].via,
                                      Ret(Taken(variant, resp))))
  /\ UNCHANGED <<variant, hostVars, page, dbVars, markers, faults, providerVars, gwVars>>

ProvTimeoutMsg(v) == IF v = "fixed" THEN LinkTimeoutMsg ELSE EdgeTimeoutMsg

\* the provisioning call fails in the browser: the raced timer wins
\* (how = "timeout") or fetch rejects (how = "reject")
ProvFails(c, how, msg) ==
  /\ how = "timeout" => Guarded(variant)
  /\ chains[c].pc = "prov" /\ faults > 0
  /\ faults' = faults - 1
  /\ Step(c, [chains[c] EXCEPT !.nFault = @ + 1],
          Catch(variant, chains[c].lvl, chains[c].via,
                IF how = "timeout" THEN ProvTimeoutMsg(variant) ELSE msg))
  /\ UNCHANGED <<variant, hostVars, page, dbVars, markers, providerVars, gwVars>>

\* the retry delay is over: loadProfile(id, retryCount + 1), up to its first await
DelayDone(c) ==
  /\ chains[c].pc \in {"delayTry", "delayCatch"} /\ chains[c].rem = 0
  /\ LET l == chains[c].lvl + 1
         via == Append(chains[c].via, IF chains[c].pc = "delayTry" THEN "try" ELSE "catch")
     IN
     IF AlreadyAttempted(chains[c].id, l)
       THEN /\ Step(c, chains[c], Unwind(variant, l - 1, chains[c].via, Ret(NoRow)))
            /\ UNCHANGED <<markers, gwVars>>
       ELSE /\ markers' = markers \cup {cacheKey(chains[c].id, l)}
            /\ chains' = [chains EXCEPT ![c] =
                 IF variant = "edgeonly"
                   THEN [@ EXCEPT !.pc = "getUser", !.lvl = l, !.via = via]
                   ELSE [@ EXCEPT !.pc = "lookup", !.lvl = l, !.via = via,
                                  !.nLookup = @ + 1]]
            /\ getSupabaseBrowser
            /\ UNCHANGED <<timers, reported, ctlVars>>
  /\ UNCHANGED <<variant, hostVars, page, dbVars, faults, providerVars>>

\* a marker's eviction timer fires
Evict(t) ==
  /\ t \in timers /\ t.rem = 0
  /\ markers' = markers \ {t.key}
  /\ timers' = timers \ {t}
  /\ UNCHANGED <<variant, hostVars, page, reported, dbVars, chains, faults, providerVars, gwVars, ctlVars>>

Delaying(c) == chains[c].pc \in {"delayTry", "delayCatch"}

\* time passes; no timer that is due is overtaken
Tick ==
  /\ \A t \in timers : t.rem > 0
  /\ \A c \in 1..MaxChains : Delaying(c) => chains[c].rem > 0
  /\ pull.pc = "getSession" => pull.rem > 0
  /\ initTimer # 0
  /\ poll.rem # 0
  /\ \/ timers # {}
     \/ \E c \in 1..MaxChains : Delaying(c)
     \/ pull.pc = "getSession"
     \/ initTimer > 0
     \/ poll.rem > 0
  /\ timers' = {[t EXCEPT !.rem = @ - TickMs(variant)] : t \in timers}
  /\ chains' = [c \in 1..MaxChains |->
                  IF Delaying(c) THEN [chains[c] EXCEPT !.rem = @ - TickMs(variant)]
                                 ELSE chains[c]]
  /\ pull' = IF pull.pc = "getSession" THEN [pull EXCEPT !.rem = @ - TickMs(variant)]
                                       ELSE pull
  /\ initTimer' = IF initTimer > 0 THEN initTimer - TickMs(variant) ELSE initTimer
  /\ poll' = IF poll.rem > 0 THEN [poll EXCEPT !.rem = @ - TickMs(variant)] ELSE poll
  /\ UNCHANGED <<variant, hostVars, page, reported, dbVars, markers, faults, providerVars, gwVars, stateVars,
                 initAttempted, isMounted, triggers, subscription>>

Loader ==
  \/ \E c \in 1..MaxChains : ServeLookup(c)
  \/ \E c \in 1..MaxChains : LookupResume(c)
  \/ \E c \in 1..MaxChains, how \in {"error", "reject"}, msg \in {AbortedMsg, NetworkMsg} :
       LookupFails(c, how, msg)
  \/ \E c \in 1..MaxChains : LookupTimeout(c)
  \/ \E c \in 1..MaxChains : GetUserResume(c)
  \/ \E c \in 1..MaxChains : ProvResume(c)
  \/ \E c \in 1..MaxChains, how \in {"timeout", "reject"}, msg \in {AbortedMsg, NetworkMsg} :
       ProvFails(c, how, msg)
  \/ \E c \in 1..MaxChains : DelayDone(c)
  \/ \E t \in timers : Evict(t)
  \/ Tick

-----------------------------------------------------------------------------
(* The useAuth effect: initAuth (the session pull), initTimeout, the        *)
(* onAuthStateChange handler (the push) and the cleanup.  pull is           *)
(*   pc      "idle", "getSession" (awaiting the raced getSession),          *)
(*           "plainSession" (hooks/useAuth.js awaiting getSession),         *)
(*           "retrySession" (awaiting the retry after a reset),             *)
(*           "loading" (awaiting loadProfile) or "done"                     *)
(*   resp    the getSession result on its way back                          *)
(*   rem     time left of the 5000 ms deadline raced against getSession     *)
(*   client  the handle initAuth holds in its variable `supabase`           *)
(*   cleared whether the last push event handled while the pull was         *)
(*           awaiting its session was SIGNED_OUT (recorded for the          *)
(*           properties)                                                    *)
(*   first   the error of the first getSession, if it had one               *)
(*   nReset, nRetry   the resets and the retries of getSession initAuth made *)
(*   outcome how initAuth got past the session: "noSession", "session",     *)
(*           "failed" or "unmounted"                                        *)

\* initAuth before the effect has run
NoPull ==
  [pc |-> "idle", resp |-> NoResp, rem |-> 0, client |-> 0, cleared |-> FALSE,
   first |-> NoMsg, nReset |-> 0, nRetry |-> 0, outcome |-> "none"]

InitTimeoutMs(v) == IF v = "fixed" THEN InitTimeoutFixedMs ELSE InitTimeoutEdgeMs

\* the edge hooks poll for the profile, the fixed hook does not
HasPoll(v) == v \in {"edge", "edgeonly"}

\* the value of `loading` the callbacks of the effect read: the effect has no
\* dependencies, so they keep the state of the render that mounted it
ClosureNotLoading == FALSE
ClosureLoading == TRUE
ClosureSession == EmptyId
ClosureProfile == NoRow

\* the test of the polling callback: `session && !profile && loading`
PollRetries == ClosureSession # EmptyId /\ ClosureProfile = NoRow /\ ClosureLoading

AwaitsSession == pull.pc \in {"getSession", "retrySession", "plainSession"}

\* resetSupabaseClient(): the cached handle is dropped and the persisted
\* tokens are removed; whether the provider still yields the session to a
\* handle created before is the provider's business
resetSupabaseClient ==
  /\ browserClient' = 0
  /\ created' = created
  /\ storage' = IF config.window THEN {k \in storage : ~ResetRemoves(k)} ELSE storage
  /\ authSession' \in {authSession, EmptyId}

\* the effect when getSupabaseBrowser() throws msg.  hooks/useAuth.js calls
\* it as the first statement of the effect, outside any try: the error
\* leaves the effect.  The other hooks call it inside initAuth's try, whose
\* catch and finally run at once, and again inside the try around
\* onAuthStateChange, whose catch only writes to the console.
EffectThrows(msg) ==
  IF variant = "original"
    THEN /\ uncaught' = uncaught \cup {msg}
         /\ UNCHANGED <<isMounted, pull, initTimer, subscription, poll, stateVars, reported>>
    ELSE /\ isMounted' = TRUE
         /\ reported' = reported \cup {msg}
         /\ error' = MessageOr(msg, InitFailedMsg)
         /\ loading' = FALSE
         /\ pull' = [NoPull EXCEPT !.pc = "done", !.outcome = "failed"]
         /\ initTimer' = -1
         /\ subscription' = 0
         /\ poll' = IF HasPoll(variant) THEN [rem |-> PollIntervalMs, count |-> 0]
                                        ELSE NoPoll
         /\ UNCHANGED <<session, user, profile, uncaught>>

\* the body of the effect past its guard: initAuth up to its first await,
\* the polling interval, then the subscription.  hooks/useAuth.js has no
\* guard, no initTimeout and no deadline on getSession (it awaits it at
\* "plainSession"); initAttempted records for it that the effect has run.
RunEffect ==
  /\ initAttempted' = TRUE
  /\ triggers' = triggers + 1
  /\ IF GatewayError # NoMsg
       THEN /\ EffectThrows(GatewayError)
            /\ UNCHANGED gwVars
       ELSE /\ isMounted' = TRUE
            /\ getSupabaseBrowser
            /\ initTimer' = IF Guarded(variant) THEN InitTimeoutMs(variant) ELSE -1
            /\ pull' = IF Guarded(variant)
                         THEN [NoPull EXCEPT !.pc = "getSession", !.rem = SessionTimeoutMs,
                                             !.client = browserClient']
                         ELSE [NoPull EXCEPT !.pc = "plainSession",
                                             !.client = browserClient']
            /\ subscription' = browserClient'
            /\ poll' = IF HasPoll(variant) THEN [rem |-> PollIntervalMs, count |-> 0]
                                           ELSE NoPoll
            /\ UNCHANGED <<stateVars, reported, uncaught>>
  /\ UNCHANGED <<variant, fetching, config, storage, calls, signingOut, page, dbVars, loaderVars,
                 faults, providerVars>>

\* the effect runs for the first time
Mount ==
  /\ ~initAttempted
  /\ RunEffect

RetriggerRunsEffect ==
  /\ initAttempted /\ triggers < MaxTriggers
  /\ RunEffect

\* the host runtime invokes the effect again: `if (initAttempted.current) return`
Retrigger ==
  /\ initAttempted /\ triggers < MaxTriggers
  /\ triggers' = triggers + 1
  /\ UNCHANGED <<variant, hostVars, page, reported, dbVars, loaderVars, faults, providerVars, gwVars, stateVars,
                 initAttempted, isMounted, poll, pull, initTimer, subscription>>

\* the provider answers getSession with the session it holds
ServeSession ==
  /\ AwaitsSession /\ pull.resp = NoResp
  /\ pull' = [pull EXCEPT !.resp = [session |-> authSession]]
  /\ UNCHANGED <<variant, hostVars, page, reported, dbVars, loaderVars, faults, providerVars, gwVars, stateVars,
                 initAttempted, isMounted, triggers, poll, initTimer, subscription>>

\* initAuth ends: its finally block
InitEnds(outcome, msg) ==
  /\ initTimer' = -1
  /\ pull' = [pull EXCEPT !.pc = "done", !.resp = NoResp, !.outcome = outcome,
                          !.first = IF pull.pc = "getSession" THEN msg ELSE @]
  /\ UNCHANGED <<initAttempted, isMounted, triggers, poll, subscription>>

\* `!currentSession`
NoSession(s) == s = EmptyId

SetNoSessionStillLoading ==
  /\ session' = EmptyId /\ user' = EmptyId /\ profile' = NoRow
  /\ loading' = loading

\* initAuth with no session: setSession(null), setUser(null),
\* setProfile(null), setLoading(false)
SetNoSession ==
  /\ session' = EmptyId /\ user' = EmptyId /\ profile' = NoRow
  /\ loading' = FALSE

\* initAuth once it has the session result, up to its next await or its end
SessionPulled(s) ==
  IF ~isMounted
    THEN /\ InitEnds("unmounted", NoMsg)
         /\ UNCHANGED <<stateVars, loaderVars, gwVars, reported>>
    ELSE IF NoSession(s)
      THEN /\ SetNoSession
           /\ InitEnds("noSession", NoMsg)
           /\ UNCHANGED <<error, loaderVars, gwVars, reported>>
      ELSE \E c \in 1..MaxChains :
             /\ FreeChain(c)
             /\ Enter(c, s, "init")
             /\ session' = s /\ user' = s
             /\ IF SettlesAtOnce(s)
                  THEN /\ profile' = NoRow /\ loading' = FALSE
                       /\ InitEnds("session", NoMsg)
                  ELSE /\ pull' = [pull EXCEPT !.pc = "loading", !.resp = NoResp,
                                               !.outcome = "session"]
                       /\ UNCHANGED <<profile, loading, initAttempted, isMounted, triggers, poll,
                                      initTimer, subscription>>
             /\ UNCHANGED error

\* initAuth's outer catch and finally; the error has been reported
\* (AuthLog.loginFailure, ErrorLog.handled)
InitFailed(msg) ==
  /\ reported' = reported \cup {msg}
  /\ error' = IF isMounted THEN MessageOr(msg, InitFailedMsg) ELSE error
  /\ loading' = IF isMounted THEN FALSE ELSE loading
  /\ InitEnds("failed", msg)
  /\ UNCHANGED <<session, user, profile>>

\* the session result reaches initAuth without error
SessionResume ==
  /\ AwaitsSession /\ pull.resp # NoResp
  /\ SessionPulled(pull.resp.session)
  /\ UNCHANGED <<variant, hostVars, page, dbVars, faults, providerVars>>

\* initAuth with a sessionError from the raced getSession
OnSessionError(msg) ==
  IF IncludesAborted(msg)
    THEN /\ resetSupabaseClient
         /\ pull' = [pull EXCEPT !.pc = "retrySession", !.resp = NoResp, !.rem = 0,
                                 !.first = msg, !.nReset = @ + 1, !.nRetry = @ + 1]
         /\ UNCHANGED <<stateVars, initAttempted, isMounted, triggers, poll, initTimer,
                        subscription, events, emitted, reported>>
    ELSE /\ InitFailed(msg)
         /\ UNCHANGED <<gwVars, providerVars, storage>>

\* getSession fails: a returned error or a rejection, alike for initAuth
SessionFails(msg) ==
  /\ AwaitsSession /\ faults > 0
  /\ faults' = faults - 1
  /\ IF pull.pc = "getSession"
       THEN OnSessionError(msg)
       ELSE /\ InitFailed(msg)
            /\ UNCHANGED <<gwVars, providerVars, storage>>
  /\ UNCHANGED <<variant, fetching, config, calls, signingOut, uncaught, page, dbVars, loaderVars>>

\* the 5000 ms deadline raced against the first getSession expires
SessionTimeout ==
  /\ pull.pc = "getSession" /\ pull.rem = 0
  /\ OnSessionError(SessionTimeoutMsg)
  /\ UNCHANGED <<variant, fetching, config, calls, signingOut, uncaught, page, dbVars, loaderVars,
                 faults>>

\* initTimeout fires
InitTimeoutFires ==
  /\ initTimer = 0
  /\ initTimer' = -1
  /\ error' = IF isMounted /\ ClosureLoading THEN InitTimeoutMsg ELSE error
  /\ loading' = IF isMounted /\ ClosureLoading THEN FALSE ELSE loading
  /\ UNCHANGED <<variant, hostVars, page, reported, dbVars, loaderVars, faults, providerVars, gwVars, session,
                 user, profile, initAttempted, isMounted, triggers, poll, pull, subscription>>

\* the handler on SIGNED_IN with a session, up to its await or its end
OnSignedIn(s) ==
  \E c \in 1..MaxChains :
    /\ FreeChain(c)
    /\ Enter(c, s, "push")
    /\ session' = s /\ user' = s
    /\ IF SettlesAtOnce(s)
         THEN profile' = NoRow /\ error' = NoMsg /\ loading' = FALSE
         ELSE loading' = TRUE /\ UNCHANGED <<profile, error>>
    /\ pull' = [pull EXCEPT !.cleared = FALSE]
    /\ UNCHANGED <<initAttempted, isMounted, triggers, poll, initTimer, subscription>>

OnSignedOutKeepsError ==
  /\ session' = EmptyId /\ user' = EmptyId /\ profile' = NoRow
  /\ pull' = [pull EXCEPT !.cleared = AwaitsSession]
  /\ UNCHANGED <<loading, error, initAttempted, isMounted, triggers, poll, initTimer,
                 subscription, loaderVars, gwVars, reported>>

\* the handler on SIGNED_OUT
OnSignedOut ==
  /\ session' = EmptyId /\ user' = EmptyId /\ profile' = NoRow /\ error' = NoMsg
  /\ pull' = [pull EXCEPT !.cleared = AwaitsSession]
  /\ UNCHANGED <<loading, initAttempted, isMounted, triggers, poll, initTimer, subscription,
                 loaderVars, gwVars, reported>>

OnNoticeSetsLoading ==
  /\ loading' = TRUE
  /\ UNCHANGED <<session, user, profile, error, effectVars, loaderVars, gwVars, reported>>

\* the handler on any other event (TOKEN_REFRESHED, USER_UPDATED): the
\* event is recorded, nothing else
OnNotice == UNCHANGED <<ctlVars, loaderVars, gwVars, reported>>

\* the polling interval fires
PollFires ==
  /\ poll.rem = 0
  /\ IF ~isMounted
       THEN /\ poll' = [poll EXCEPT !.rem = PollIntervalMs]
            /\ UNCHANGED <<stateVars, loaderVars, gwVars, reported>>
       ELSE IF poll.count + 1 > maxPolls
         THEN /\ poll' = [rem |-> -1, count |-> poll.count + 1]
              /\ loading' = IF PollRetries THEN FALSE ELSE loading
              /\ error' = IF PollRetries THEN PollFailedMsg ELSE error
              /\ UNCHANGED <<session, user, profile, loaderVars, gwVars, reported>>
         ELSE /\ poll' = [rem |-> PollIntervalMs, count |-> poll.count + 1]
              /\ IF PollRetries
                   THEN /\ \E c \in 1..MaxChains :
                             FreeChain(c) /\ Enter(c, ClosureSession, "poll")
                        /\ UNCHANGED stateVars
                   ELSE UNCHANGED <<stateVars, loaderVars, gwVars, reported>>
  /\ UNCHANGED <<variant, hostVars, page, dbVars, faults, providerVars, initAttempted, isMounted, triggers,
                 pull, initTimer, subscription>>

\* the provider calls the onAuthStateChange handler with its oldest event
Deliver ==
  /\ events # <<>> /\ subscription # 0
  /\ events' = Tail(events)
  /\ IF ~isMounted
       THEN UNCHANGED <<ctlVars, loaderVars, gwVars, reported>>
       ELSE IF Head(events).event = "SIGNED_IN" /\ Head(events).session # EmptyId
         THEN OnSignedIn(Head(events).session)
         ELSE IF Head(events).event = "SIGNED_OUT"
           THEN OnSignedOut
           ELSE OnNotice
  /\ UNCHANGED <<variant, hostVars, page, dbVars, faults, authSession, emitted>>

\* the cleanup of the effect
Unmount ==
  /\ isMounted
  /\ isMounted' = FALSE
  /\ initTimer' = -1
  /\ subscription' = 0
  /\ poll' = [poll EXCEPT !.rem = -1]
  /\ UNCHANGED <<variant, hostVars, page, reported, dbVars, loaderVars, faults, providerVars, gwVars, stateVars,
                 initAttempted, triggers, pull>>

\* the provider emits a push event to its listener
Emit(e) ==
  /\ subscription # 0 /\ Len(emitted) < MaxEvents
  /\ events' = Append(events, e)
  /\ emitted' = Append(emitted, e)

\* the users who sign in while the hook is mounted
SignInUsers == {"u1"}

\* a sign-in completes at the provider
ProviderSignIn(u) ==
  /\ Emit([event |-> "SIGNED_IN", session |-> u])
  /\ authSession' = u
  /\ storage' = storage \cup Persisted(u)
  /\ UNCHANGED <<variant, fetching, config, calls, signingOut, uncaught, page, reported, dbVars,
                 loaderVars, faults, gwVars, ctlVars>>

\* the session ends at the provider
ProviderSignOut ==
  /\ authSession # EmptyId
  /\ Emit([event |-> "SIGNED_OUT", session |-> EmptyId])
  /\ authSession' = EmptyId
  /\ storage' = storage \ {AppKey}
  /\ UNCHANGED <<variant, fetching, config, calls, signingOut, uncaught, page, reported, dbVars,
                 loaderVars, faults, gwVars, ctlVars>>

\* the provider refreshes the token or the user record
ProviderNotice(kind) ==
  /\ authSession # EmptyId
  /\ Emit([event |-> kind, session |-> authSession])
  /\ UNCHANGED <<variant, hostVars, page, reported, dbVars, loaderVars, faults, authSession, gwVars, ctlVars>>

-----------------------------------------------------------------------------
(* refreshProfile and its caller in pages/profil.  page is                  *)
(*   pc        "idle", "updating" (handleUpdate awaits the datastore),      *)
(*             "updated" (the answer is on its way back)                    *)
(*   id        the user handleUpdate was called for                         *)
(*   nRefresh  the calls of refreshProfile so far                           *)
(*   nUpdate   the calls of handleUpdate so far                             *)

NoPage == [pc |-> "idle", id |-> EmptyId, nRefresh |-> 0, nUpdate |-> 0]

\* the values of the form submitted by handleUpdate
FormData == [nom |-> "Daed", prenom |-> "Shemsu", telephone |-> "0600"]

\* .update({nom, prenom, telephone}).eq('id_auth', id)
Updated(id) ==
  {IF r.id_auth = id
     THEN [r EXCEPT !.nom = FormData.nom, !.prenom = FormData.prenom,
                    !.telephone = FormData.telephone]
     ELSE r : r \in db}

NoUserNever(u) == FALSE

\* `!user?.id`
NoUser(u) == u = EmptyId

\* refreshProfile() of a render in which the user is u, up to its await or
\* its end
refreshProfile(u) ==
  /\ IF NoUser(u)
       THEN /\ reported' = reported \cup {NoUserMsg}
            /\ UNCHANGED <<stateVars, loaderVars, gwVars>>
       ELSE \E c \in 1..MaxChains :
              /\ FreeChain(c)
              /\ Enter(c, u, "refresh")
              /\ IF SettlesAtOnce(u)
                   THEN profile' = NoRow /\ error' = NoMsg /\ loading' = FALSE
                   ELSE loading' = TRUE /\ UNCHANGED <<profile, error>>
              /\ UNCHANGED <<session, user>>
  /\ UNCHANGED effectVars

\* some component calls refreshProfile()
RefreshProfile ==
  /\ page.nRefresh < MaxRefresh
  /\ page' = [page EXCEPT !.nRefresh = @ + 1]
  /\ refreshProfile(user)
  /\ UNCHANGED <<variant, hostVars, dbVars, faults, providerVars>>

\* handleUpdate up to its await of the datastore
HandleUpdate ==
  /\ page.pc = "idle" /\ page.nUpdate < MaxUpdates
  /\ user # EmptyId /\ profile # NoRow
  /\ page' = [page EXCEPT !.pc = "updating", !.id = user, !.nUpdate = @ + 1]
  /\ getSupabaseBrowser
  /\ UNCHANGED <<variant, hostVars, reported, dbVars, loaderVars, faults, providerVars, ctlVars>>

\* the datastore applies the update
ServeUpdate ==
  /\ page.pc = "updating"
  /\ db' = Updated(page.id)
  /\ page' = [page EXCEPT !.pc = "updated"]
  /\ UNCHANGED <<variant, hostVars, reported, reqs, loaderVars, faults, providerVars, gwVars, ctlVars>>

\* handleUpdate from the answer of the datastore to the await of
\* refreshProfile()
UpdateResume ==
  /\ page.pc = "updated"
  /\ page' = [page EXCEPT !.pc = "idle", !.nRefresh = @ + 1]
  /\ refreshProfile(page.id)
  /\ UNCHANGED <<variant, hostVars, dbVars, faults, providerVars>>

\* the update fails: handleUpdate reports the error and does not refresh
UpdateFails(msg) ==
  /\ page.pc = "updating" /\ faults > 0
  /\ faults' = faults - 1
  /\ page' = [page EXCEPT !.pc = "idle"]
  /\ reported' = reported \cup {msg}
  /\ UNCHANGED <<variant, hostVars, dbVars, loaderVars, providerVars, gwVars, ctlVars>>

Profil ==
  \/ RefreshProfile
  \/ HandleUpdate
  \/ ServeUpdate
  \/ UpdateResume
  \/ \E msg \in {NetworkMsg} : UpdateFails(msg)

-----------------------------------------------------------------------------
(* lib/supabase called by the pages.  calls records each call's outcome:    *)
(*   op      "get", "reset" or "signOut"                                    *)
(*   out     the handle returned by getSupabaseBrowser(), 0 when it threw   *)
(*   err     the message of the error thrown, NoMsg when none               *)
(*   made    createClient constructed a handle during the call              *)
(*   ok      signOut's `success`                                            *)
(* signingOut is signOut() suspended at `await supabase.auth.signOut()`:    *)
(*   pc      "idle", "api" (the provider has not answered), "answered"      *)
(*   client  the handle it calls the provider on                            *)

NoSignOut == [pc |-> "idle", client |-> 0]

Call(op, out, err, made, ok) ==
  [op |-> op, out |-> out, err |-> err, made |-> made, ok |-> ok]

\* a page calls getSupabaseBrowser(): the handle, or the error rethrown by
\* the catch around createClient, browserClient being assigned only when
\* createClient has returned
GetBrowser ==
  /\ Len(calls) < MaxCalls
  /\ IF GatewayError = NoMsg
       THEN /\ getSupabaseBrowser
            /\ calls' = Append(calls, Call("get", browserClient', NoMsg,
                                           created' # created, TRUE))
       ELSE /\ calls' = Append(calls, Call("get", 0, GatewayError, FALSE, FALSE))
            /\ UNCHANGED gwVars
  /\ UNCHANGED <<variant, fetching, config, storage, signingOut, uncaught, page, reported, dbVars,
                 loaderVars, faults, providerVars, ctlVars>>

\* a page calls resetSupabaseClient()
ResetClient ==
  /\ Len(calls) < MaxCalls
  /\ resetSupabaseClient
  /\ calls' = Append(calls, Call("reset", 0, NoMsg, FALSE, TRUE))
  /\ UNCHANGED <<variant, fetching, config, signingOut, uncaught, page, reported, dbVars, loaderVars,
                 faults, events, emitted, ctlVars>>

\* signOut()'s catch: localStorage.clear(), the handle dropped, success false
SignOutCaught(msg) ==
  /\ storage' = IF config.window THEN {} ELSE storage
  /\ browserClient' = 0
  /\ calls' = Append(calls, Call("signOut", 0, msg, FALSE, FALSE))
  /\ signingOut' = NoSignOut

\* a page calls signOut(): the handle, the storage cleaning, then the call
\* of the provider
SignOutStart ==
  /\ signingOut.pc = "idle" /\ Len(calls) < MaxCalls
  /\ IF GatewayError = NoMsg
       THEN /\ getSupabaseBrowser
            /\ storage' = {k \in storage : ~SignOutRemoves(k)}
            /\ signingOut' = [pc |-> "api", client |-> browserClient']
            /\ calls' = calls
       ELSE /\ SignOutCaught(GatewayError)
            /\ created' = created
  /\ UNCHANGED <<variant, fetching, config, uncaught, page, reported, dbVars, loaderVars, faults,
                 providerVars, ctlVars>>

\* the provider ends the session and tells the listeners
ServeSignOut ==
  /\ signingOut.pc = "api"
  /\ signingOut' = [signingOut EXCEPT !.pc = "answered"]
  /\ authSession' = EmptyId
  /\ IF subscription # 0 /\ Len(emitted) < MaxEvents
       THEN Emit([event |-> "SIGNED_OUT", session |-> EmptyId])
       ELSE UNCHANGED <<events, emitted>>
  /\ UNCHANGED <<variant, fetching, config, storage, calls, uncaught, page, reported, dbVars,
                 loaderVars, faults, gwVars, ctlVars>>

\* signOut() resumes with the provider's answer, an `error` in it or not
SignOutResume ==
  /\ signingOut.pc = "answered"
  /\ browserClient' = 0
  /\ calls' = Append(calls, Call("signOut", 0, NoMsg, FALSE, TRUE))
  /\ signingOut' = NoSignOut
  /\ UNCHANGED <<variant, fetching, config, storage, uncaught, page, reported, dbVars, loaderVars,
                 faults, providerVars, created, ctlVars>>

\* the call of the provider rejects
SignOutFails(msg) ==
  /\ signingOut.pc = "api" /\ faults > 0
  /\ faults' = faults - 1
  /\ SignOutCaught(msg)
  /\ UNCHANGED <<variant, fetching, config, uncaught, page, reported, dbVars, loaderVars,
                 providerVars, created, ctlVars>>

-----------------------------------------------------------------------------
(* lib/supabase: fetchWithRetry and the helpers built on it,               *)
(* getCurrentSession() and getCurrentAuthUser().  fetching is               *)
(*   pc      "idle", "fn" (the loop awaits fn()), "delay" (it awaits the    *)
(*           delay before the next turn) or "done"                          *)
(*   op      "session", "user" (the helper that called) or "direct"         *)
(*   max     the maxRetries argument                                        *)
(*   i       the loop variable                                              *)
(*   lastError   the variable of that name                                  *)
(*   out     what fetchWithRetry returned or threw                          *)
(*   ret     what the helper returned or threw                              *)
(* and, recorded for the properties, n (the invocations of fn so far),      *)
(* errs (the errors fn threw, in order) and got (what fn resolved with).    *)
(* The delay between two turns is not timed: it races with nothing.         *)

Val(v) == [kind |-> "ret", val |-> v]
Err(msg) == [kind |-> "thr", msg |-> msg]
Null == "null"

NoFetch ==
  [pc |-> "idle", op |-> "none", max |-> 0, i |-> 0, lastError |-> NoMsg,
   out |-> NoOut, ret |-> NoOut, n |-> 0, errs |-> <<>>, got |-> NoOut]

\* a loop that retries after any error
FetchRetriesAnyError(msg, i, max) == i < max

\* err.message?.includes('aborted') && i < maxRetries
FetchRetries(msg, i, max) == IncludesAborted(msg) /\ i < max

\* the helper's try/catch around fetchWithRetry: the result, or null when
\* anything was thrown
HelperReturns(op, out) ==
  IF op = "direct" THEN out
  ELSE IF out.kind = "thr" THEN Val(Null) ELSE out

\* fetchWithRetry settles with `out`
FetchSettles(f, out) ==
  [f EXCEPT !.pc = "done", !.out = out, !.ret = HelperReturns(f.op, out)]

\* the head of the loop with loop variable i: `i <= maxRetries`, then
\* `await fn()`, or the `throw lastError` after the loop
FetchTurn(f, i) ==
  IF i <= f.max
    THEN [f EXCEPT !.pc = "fn", !.i = i, !.n = @ + 1]
    ELSE FetchSettles([f EXCEPT !.i = i], Err(f.lastError))

\* a page calls getCurrentSession() or getCurrentAuthUser(), up to the first
\* await: getSupabaseBrowser() may throw into the helper's catch
GetCurrent(op) ==
  /\ fetching.pc = "idle"
  /\ IF GatewayError # NoMsg
       THEN /\ fetching' = [NoFetch EXCEPT !.pc = "done", !.op = op,
                                            !.max = DefaultMaxRetries,
                                            !.ret = Val(Null)]
            /\ UNCHANGED gwVars
       ELSE /\ getSupabaseBrowser
            /\ fetching' = FetchTurn([NoFetch EXCEPT !.op = op,
                                                     !.max = DefaultMaxRetries], 0)
  /\ UNCHANGED <<variant, config, storage, calls, signingOut, uncaught, page, reported,
                 dbVars, loaderVars, faults, providerVars, ctlVars>>

\* fetchWithRetry(fn, maxRetries) called with another bound, up to the
\* first await
CallFetchWithRetry(max) ==
  /\ fetching.pc = "idle"
  /\ fetching' = FetchTurn([NoFetch EXCEPT !.op = "direct", !.max = max], 0)
  /\ UNCHANGED <<variant, config, storage, calls, signingOut, uncaught, page, reported,
                 dbVars, loaderVars, faults, providerVars, gwVars, ctlVars>>

\* what the provider holds for the helper: the session, or its user
Held == IF authSession = EmptyId THEN Null ELSE authSession

\* fn() resolves: `return result`
FnResolves ==
  /\ fetching.pc = "fn"
  /\ fetching' = FetchSettles([fetching EXCEPT !.got = Val(Held)], Val(Held))
  /\ UNCHANGED <<variant, config, storage, calls, signingOut, uncaught, page, reported,
                 dbVars, loaderVars, faults, providerVars, gwVars, ctlVars>>

\* fn() throws msg (the provider returned an error or the call rejected):
\* the catch block of the loop
FnFails(msg) ==
  /\ fetching.pc = "fn" /\ faults > 0
  /\ faults' = faults - 1
  /\ LET f == [fetching EXCEPT !.lastError = msg, !.errs = Append(@, msg)] IN
     fetching' = IF FetchRetries(msg, f.i, f.max)
                   THEN [f EXCEPT !.pc = "delay"]
                   ELSE FetchSettles(f, Err(msg))
  /\ UNCHANGED <<variant, config, storage, calls, signingOut, uncaught, page, reported,
                 dbVars, loaderVars, providerVars, gwVars, ctlVars>>

\* the delay is over: `continue`, i++ and the next turn
FetchDelayDone ==
  /\ fetching.pc = "delay"
  /\ fetching' = FetchTurn(fetching, fetching.i + 1)
  /\ UNCHANGED <<variant, config, storage, calls, signingOut, uncaught, page, reported,
                 dbVars, loaderVars, faults, providerVars, gwVars, ctlVars>>

Controller ==
  \/ Mount
  \/ ServeSession
  \/ SessionResume
  \/ \E msg \in {AbortedMsg, NetworkMsg} : SessionFails(msg)
  \/ SessionTimeout
  \/ InitTimeoutFires
  \/ Deliver
  \/ Unmount
  \/ \E u \in SignInUsers : ProviderSignIn(u)
  \/ ProviderSignOut
  \/ \E kind \in {"TOKEN_REFRESHED", "USER_UPDATED"} : ProviderNotice(kind)

-----------------------------------------------------------------------------
(* Initial states *)

InitBase ==
  /\ variant \in {"fixed", "edge", "edgeonly", "original"}
  /\ db \in {{}, {ExistingRow("u1")}}
  /\ reqs = <<>>
  /\ chains = [c \in 1..MaxChains |-> IdleChain]
  /\ markers = {}
  /\ timers = {}
  /\ authSession \in {EmptyId, "u1"}
  /\ events = <<>> /\ emitted = <<>> /\ reported = {}
  /\ triggers = 0 /\ poll = NoPoll /\ page = NoPage
  /\ browserClient = 0 /\ created = 0
  /\ calls = <<>> /\ signingOut = NoSignOut /\ uncaught = {}
  /\ fetching = NoFetch
  /\ pull = NoPull /\ initTimer = -1 /\ subscription = 0
  /\ session = EmptyId /\ user = EmptyId /\ profile = NoRow
  /\ loading = TRUE /\ error = NoMsg
  /\ initAttempted = FALSE /\ isMounted = FALSE

\* the build is configured, the code runs in a browser
InitCommon ==
  /\ InitBase
  /\ variant \in {"fixed", "edge", "edgeonly"}
  /\ config = FullConfig
  /\ storage = Persisted(authSession) \cup {ForeignKey}

(* The provisioners alone, driven by direct requests *)

InitProv ==
  /\ InitCommon
  /\ variant = "fixed" /\ authSession = EmptyId
  /\ faults = MaxProvFaults

NextProv ==
  \/ \E prov \in {"edge", "link"}, id \in AuthIds, email \in {"A@x.com", ""} :
       EnvRequest(prov, id, email)
  \/ Provisioners

SpecProv == InitProv /\ [][NextProv]_vars

(* The loader called directly: two overlapping top-level calls *)

InitLoad ==
  /\ InitCommon
  /\ faults = MaxLoadFaults

NextLoad ==
  \/ \E c \in 1..MaxChains, id \in AuthIds : StartLoad(c, id)
  \/ Loader
  \/ Provisioners

SpecLoad == InitLoad /\ [][NextLoad]_vars

(* The loader called directly: one top-level call under repeated failures *)

InitRetry ==
  /\ InitCommon
  /\ faults = MaxFaults

NextRetry ==
  \/ \E id \in AuthIds : StartLoad(1, id)
  \/ Loader
  \/ Provisioners

SpecRetry == InitRetry /\ [][NextRetry]_vars

(* The three hooks from mount to cleanup, with no push event and the user's *)
(* row stored: the session pull, its timers, the polling interval and the   *)
(* load the pull starts                                                     *)

InitInit ==
  /\ InitCommon
  /\ db = {ExistingRow("u1")}
  /\ faults = MaxInitFaults

NextInit ==
  \/ Mount
  \/ Retrigger
  \/ ServeSession
  \/ SessionResume
  \/ \E msg \in {AbortedMsg, NetworkMsg} : SessionFails(msg)
  \/ SessionTimeout
  \/ InitTimeoutFires
  \/ PollFires
  \/ Unmount
  \/ Loader
  \/ \E i \in DOMAIN reqs : EdgeCheck(i)
  \/ \E i \in DOMAIN reqs : ProvDbError(i)

SpecInit == InitInit /\ [][NextInit]_vars

(* The three hooks in a page that refreshes the profile of a user whose row *)
(* is stored: mount, the session pull, refreshProfile, handleUpdate and the *)
(* cleanup                                                                  *)

InitRefresh ==
  /\ InitCommon
  /\ db = {ExistingRow("u1")}
  /\ faults = MaxRefreshFaults

NextRefresh ==
  \/ Mount
  \/ ServeSession
  \/ SessionResume
  \/ SessionTimeout
  \/ InitTimeoutFires
  \/ PollFires
  \/ Unmount
  \/ Profil
  \/ Loader
  \/ \E i \in DOMAIN reqs : EdgeCheck(i)
  \/ \E i \in DOMAIN reqs : ProvDbError(i)

SpecRefresh == InitRefresh /\ [][NextRefresh]_vars

(* The fixed hook mounted in a page: pull, push and the loads they start    *)

InitCtl ==
  /\ InitCommon
  /\ variant = "fixed"
  /\ faults = MaxCtlFaults

NextCtl ==
  \/ Controller
  \/ Loader
  \/ LinkProfile
  \/ \E i \in DOMAIN reqs : ProvDbError(i)

SpecCtl == InitCtl /\ [][NextCtl]_vars

(* The loader called once with any argument, the empty identity included; *)
(* under SpecArgFair the timers of the event loop fire and every request   *)
(* is answered                                                             *)

InitArg ==
  /\ InitCommon
  /\ faults = MaxArgFaults

NextArg ==
  \/ \E id \in AuthIds \cup {EmptyId} : StartLoad(1, id)
  \/ Loader
  \/ Provisioners

SpecArg == InitArg /\ [][NextArg]_vars

RequestsAnswered ==
  \E c \in 1..MaxChains :
    ServeLookup(c) \/ LookupResume(c) \/ GetUserResume(c) \/ ProvResume(c)

SpecArgFair ==
  /\ SpecArg
  /\ WF_vars(Tick)
  /\ WF_vars(\E t \in timers : Evict(t))
  /\ WF_vars(\E c \in 1..MaxChains : DelayDone(c))
  /\ WF_vars(RequestsAnswered)
  /\ WF_vars(Provisioners)

(* The four hooks from mount to cleanup in a browser, under every build: *)
(* the URL or the anonymous key may be absent                            *)

InitBoot ==
  /\ InitBase
  /\ config \in {cfg \in Configs : cfg.window}
  /\ storage = Persisted(authSession) \cup {ForeignKey}
  /\ faults = MaxBootFaults

NextBoot ==
  \/ Mount
  \/ ServeSession
  \/ SessionResume
  \/ \E msg \in {AbortedMsg, NetworkMsg} : SessionFails(msg)
  \/ SessionTimeout
  \/ InitTimeoutFires
  \/ PollFires
  \/ Unmount
  \/ Loader
  \/ Provisioners

SpecBoot == InitBoot /\ [][NextBoot]_vars

(* lib/supabase alone, called by the pages under every build *)

InitGw ==
  /\ InitBase
  /\ variant = "fixed" /\ db = {} /\ authSession = "u1"
  /\ config \in Configs
  /\ storage \in SUBSET StorageKeys
  /\ faults = MaxGwFaults

NextGw ==
  \/ GetBrowser
  \/ ResetClient
  \/ SignOutStart
  \/ ServeSignOut
  \/ SignOutResume
  \/ \E msg \in {NetworkMsg} : SignOutFails(msg)

SpecGw == InitGw /\ [][NextGw]_vars

(* The three hooks when the host runtime runs the effect, its cleanup and   *)
(* the effect again on the same instance; under SpecRemountFair time       *)
(* passes, the timers of the event loop fire and every call of the         *)
(* provider, of the datastore and of the provisioners is answered          *)

InitRemount ==
  /\ InitCommon
  /\ db = {ExistingRow("u1")}
  /\ faults = MaxRemountFaults

NextRemount ==
  \/ Mount
  \/ Unmount
  \/ Retrigger
  \/ ServeSession
  \/ SessionResume
  \/ \E msg \in {AbortedMsg, NetworkMsg} : SessionFails(msg)
  \/ SessionTimeout
  \/ InitTimeoutFires
  \/ PollFires
  \/ Loader
  \/ \E i \in DOMAIN reqs : EdgeCheck(i)
  \/ \E i \in DOMAIN reqs : ProvDbError(i)

SpecRemount == InitRemount /\ [][NextRemount]_vars

TimersFire ==
  \/ SessionTimeout
  \/ InitTimeoutFires
  \/ PollFires
  \/ \E t \in timers : Evict(t)
  \/ \E c \in 1..MaxChains : DelayDone(c)

SpecRemountFair ==
  /\ SpecRemount
  /\ WF_vars(Mount)
  /\ WF_vars(Tick)
  /\ WF_vars(TimersFire)
  /\ WF_vars(ServeSession)
  /\ WF_vars(SessionResume)
  /\ WF_vars(RequestsAnswered)
  /\ WF_vars(\E i \in DOMAIN reqs : EdgeCheck(i))

(* The fixed hook mounted while the provider, the datastore and the        *)
(* provisioner may stay silent: a call is answered or not, a raced          *)
(* deadline expires.  Under SpecHangFair time passes and every timer of    *)
(* the event loop fires, the raced deadlines included; nothing obliges the *)
(* other side to answer                                                    *)

InitHang ==
  /\ InitCommon
  /\ variant = "fixed"
  /\ faults = MaxHangFaults

\* the deadline raced against a call of the loader expires
DeadlineExpires ==
  \/ \E c \in 1..MaxChains : LookupTimeout(c)
  \/ \E c \in 1..MaxChains : ProvFails(c, "timeout", NoMsg)

NextHang ==
  \/ Mount
  \/ ServeSession
  \/ SessionResume
  \/ \E msg \in {AbortedMsg} : SessionFails(msg)
  \/ SessionTimeout
  \/ InitTimeoutFires
  \/ \E c \in 1..MaxChains : ServeLookup(c)
  \/ \E c \in 1..MaxChains : LookupResume(c)
  \/ \E c \in 1..MaxChains : GetUserResume(c)
  \/ \E c \in 1..MaxChains : ProvResume(c)
  \/ DeadlineExpires
  \/ \E t \in timers : Evict(t)
  \/ Tick
  \/ LinkProfile

SpecHang == InitHang /\ [][NextHang]_vars

SpecHangFair ==
  /\ SpecHang
  /\ WF_vars(Mount)
  /\ WF_vars(Tick)
  /\ WF_vars(TimersFire)
  /\ WF_vars(DeadlineExpires)

(* The fixed hook mounted while two users sign in one after the other;    *)
(* every call is answered                                                  *)

InitUsers ==
  /\ InitCommon
  /\ variant = "fixed"
  /\ faults = 0

NextUsers ==
  \/ Mount
  \/ ServeSession
  \/ SessionResume
  \/ SessionTimeout
  \/ InitTimeoutFires
  \/ Deliver
  \/ \E u \in AuthIds : ProviderSignIn(u)
  \/ \E c \in 1..MaxChains : ServeLookup(c)
  \/ \E c \in 1..MaxChains : LookupResume(c)
  \/ \E c \in 1..MaxChains : GetUserResume(c)
  \/ \E c \in 1..MaxChains : ProvResume(c)
  \/ \E t \in timers : Evict(t)
  \/ Tick
  \/ LinkProfile

SpecUsers == InitUsers /\ [][NextUsers]_vars

(* fetchWithRetry and its two helpers alone, under every build *)

InitFetch ==
  /\ InitBase
  /\ variant = "fixed" /\ db = {}
  /\ config \in Configs
  /\ storage = Persisted(authSession)
  /\ faults = MaxFetchFaults

NextFetch ==
  \/ \E op \in {"session", "user"} : GetCurrent(op)
  \/ \E max \in 0..MaxRetriesArg : CallFetchWithRetry(max)
  \/ FnResolves
  \/ \E msg \in {AbortedMsg, NetworkMsg} : FnFails(msg)
  \/ FetchDelayDone

SpecFetch == InitFetch /\ [][NextFetch]_vars

-----------------------------------------------------------------------------
(* Properties of the provisioners (SpecProv) *)

\* the row a provisioner's answer carries
RowIn(q) == IF q.prov = "edge" THEN q.resp.profile ELSE q.resp.user

\* the answer is a success
Success(q) == ResponseOk(q.resp) /\ q.resp.ok

\* request i was well-formed and has been answered without a datastore failure
Answered(i) ==
  /\ reqs[i].pc = "sent" /\ ~reqs[i].dbError
  /\ ~MissingFields(reqs[i].id_auth, reqs[i].email)

\* C5 (as stated): two provisioning requests for one identity, in any
\* interleaving of their check and insert steps, leave exactly one row for it
\* and both are answered with a success carrying that row.
C5_IdempotentProvisioning ==
  \A i, j \in DOMAIN reqs :
    (i # j /\ reqs[i].id_auth = reqs[j].id_auth /\ Answered(i) /\ Answered(j)) =>
      /\ Cardinality(RowsOf(reqs[i].id_auth)) = 1
      /\ Success(reqs[i]) /\ Success(reqs[j])
      /\ RowIn(reqs[i]) = RowIn(reqs[j])
      /\ RowIn(reqs[i]) \in db

\* two requests for one identity both reached their insert step, and both are answered
C5_BothInserted ==
  \E i, j \in DOMAIN reqs :
    /\ i # j /\ reqs[i].id_auth = reqs[j].id_auth /\ Answered(i) /\ Answered(j)
    /\ reqs[i].raced /\ reqs[j].resp.status = 201

\* C6 (as stated): in both provisioners an insert refused with 23505 is
\* answered with a success carrying the now-existing row, existed = true; the
\* violation never reaches the caller as a failure.
C6_ConstraintRecovery ==
  \A i \in DOMAIN reqs :
    (reqs[i].raced /\ Answered(i)) =>
      /\ Success(reqs[i]) /\ reqs[i].resp.existed
      /\ RowIn(reqs[i]) = maybeSingle(reqs[i].id_auth)

\* a link-profile request lost the creation race and has been answered
C6_LinkLostRace ==
  \E i \in DOMAIN reqs : reqs[i].prov = "link" /\ reqs[i].raced /\ Answered(i)

-----------------------------------------------------------------------------
(* Properties of one load under failures (SpecRetry) *)

Done(c) == chains[c].pc = "done"

\* the provisioning requests a call sent
ChainReqs(c) == {i \in DOMAIN reqs : reqs[i].owner = c}

\* the network requests (lookups and provisioning calls) a call issued
Requests(c) == chains[c].nLookup + chains[c].nProv

\* every lookup of the call failed with an 'aborted' error, and nothing else failed
AlwaysAborted(c) ==
  /\ chains[c].nLookup >= 1
  /\ chains[c].nAborted = chains[c].nLookup
  /\ chains[c].nFault = chains[c].nAborted

\* C1 (as stated): a call that is not suppressed and whose lookup fails with
\* 'aborted' on every attempt issues exactly 3 lookups and then throws the
\* error to its caller; it does not end with a null result.
C1_RetryBound ==
  \A c \in 1..MaxChains :
    (Done(c) /\ ~chains[c].suppressed /\ AlwaysAborted(c)) =>
      /\ chains[c].nLookup = maxRetries + 1
      /\ chains[c].out.kind = "thr"
      /\ IncludesAborted(chains[c].out.msg)

\* a call has settled after three lookups that all failed with 'aborted'
C1_ThreeAborted ==
  \E c \in 1..MaxChains :
    Done(c) /\ AlwaysAborted(c) /\ chains[c].nLookup = maxRetries + 1

\* C10 (as stated): when the first lookup of a call times out and nothing else
\* fails, the call retries once, returns the stored row and provisions nothing.
C10_TimeoutTransient ==
  \A c \in 1..MaxChains :
    (Done(c) /\ ~chains[c].suppressed /\ chains[c].firstTimedOut
        /\ chains[c].nFault = 1 /\ chains[c].rowAtStart # NoRow) =>
      /\ chains[c].nLookup = 2
      /\ chains[c].out = Ret(chains[c].rowAtStart)
      /\ chains[c].nProv = 0

\* a call whose first lookup timed out, for an identity that has a row, has settled
C10_TimedOutOnce ==
  \E c \in 1..MaxChains :
    Done(c) /\ chains[c].firstTimedOut /\ chains[c].nFault = 1
            /\ chains[c].rowAtStart # NoRow

-----------------------------------------------------------------------------
(* Properties of overlapping loads (SpecLoad) *)

\* nothing failed during the call: no injected failure, no datastore failure
\* in a provisioning request it sent
Clean(c) ==
  chains[c].nFault = 0 /\ \A i \in ChainReqs(c) : ~reqs[i].dbError

\* the call before c whose marker c met
First(c) == chains[c].by

\* C2 (as stated): when a second loadProfile(id, 0) starts while the marker of
\* the first is present, exactly one network request is made for the pair and
\* the second caller gets null without issuing any.
C2_OneRequestForThePair ==
  \A c \in 1..MaxChains :
    (chains[c].inWindow /\ First(c) # 0 /\ Done(First(c))) =>
      /\ chains[c].out = Ret(NoRow)
      /\ Requests(c) = 0
      /\ Requests(First(c)) + Requests(c) = 1

\* C2 (amended): the second caller gets null without issuing any lookup or
\* provisioning call; the requests of the pair are those of the first call,
\* exactly one when nothing fails and the row is found by its lookup (or, in
\* the edge-only hook, which needs a live auth user, by the provisioner).
C2_DedupWindow ==
  \A c \in 1..MaxChains :
    chains[c].inWindow =>
      /\ Done(c) /\ chains[c].out = Ret(NoRow)
      /\ Requests(c) = 0 /\ ChainReqs(c) = {}
      /\ First(c) # 0 /\ chains[First(c)].id = chains[c].id
      /\ (/\ Done(First(c)) /\ Clean(First(c))
          /\ chains[First(c)].rowAtStart # NoRow
          /\ variant = "edgeonly" => EmailOf(authSession) # "")
           => Requests(First(c)) = 1

\* a second call was made inside the window of a first one that had to provision
C2_SecondInWindow ==
  \E c \in 1..MaxChains :
    /\ chains[c].inWindow /\ First(c) # 0 /\ Done(First(c))
    /\ chains[First(c)].nLookup = 1 /\ chains[First(c)].nProv = 1

\* the call is a first login that nothing disturbed: no row when it was made,
\* a live auth user, no failure, no provisioning request for the identity
\* left over from another call
FirstLogin(c) ==
  /\ Done(c) /\ ~chains[c].suppressed /\ Clean(c)
  /\ chains[c].rowAtStart = NoRow
  /\ EmailOf(authSession) # ""
  /\ \A i \in DOMAIN reqs : reqs[i].id_auth = chains[c].id => reqs[i].owner = c

\* C8: a first login returns a newly created row with role 'agriculteur' and
\* statut 'actif', and the provisioning endpoint is called exactly once.
C8_FirstLogin ==
  \A c \in 1..MaxChains :
    FirstLogin(c) =>
      /\ chains[c].out.kind = "ret"
      /\ chains[c].out.row \in db
      /\ chains[c].out.row.id_auth = chains[c].id
      /\ chains[c].out.row.role = "agriculteur"
      /\ chains[c].out.row.statut = "actif"
      /\ chains[c].nProv = 1 /\ Cardinality(ChainReqs(c)) = 1
      /\ \A i \in ChainReqs(c) : reqs[i].resp.status = 201

\* a first login through the link-profile route has settled
C8_FirstLoginDone ==
  \E c \in 1..MaxChains : FirstLogin(c) /\ variant = "fixed" /\ chains[c].nProv = 1

\* the call is for a returning user and nothing failed
Returning(c) ==
  /\ Done(c) /\ ~chains[c].suppressed /\ Clean(c)
  /\ chains[c].rowAtStart # NoRow

\* C9 (as stated): in every hook a load for an identity that has a row
\* returns that row unchanged and does not call the provisioning endpoint.
C9_ReturningUser ==
  \A c \in 1..MaxChains :
    Returning(c) =>
      /\ chains[c].out = Ret(chains[c].rowAtStart)
      /\ chains[c].rowAtStart \in db
      /\ chains[c].nProv = 0

\* a returning user's load through the edge-only hook has settled
C9_ReturningViaEdgeOnly ==
  \E c \in 1..MaxChains : Returning(c) /\ variant = "edgeonly" /\ chains[c].nProv = 1

-----------------------------------------------------------------------------
(* Properties of the mounted hook (SpecCtl) *)

\* the step in which initAuth resumes with its session result
PullResumes == AwaitsSession /\ pull'.pc \in {"loading", "done"}

\* C3 (as stated): when SIGNED_OUT has cleared the state while the session
\* pull was in flight, the late resumption of the pull does not set session,
\* user or profile again: they stay null.
C3_StaleResultImmunity ==
  [][(pull.cleared /\ PullResumes) =>
       (session' = EmptyId /\ user' = EmptyId /\ profile' = NoRow)]_vars

\* the pull has resumed after a SIGNED_OUT that was handled while it was in flight
C3_ResumedAfterSignOut == pull.cleared /\ pull.pc \in {"loading", "done"}

\* no event that ends the session was emitted, none is pending, the hook is mounted
OnlySignedIn ==
  /\ isMounted /\ events = <<>>
  /\ \A k \in DOMAIN emitted : emitted[k].event # "SIGNED_OUT"

\* the pull's load ci and the push's load cp, for one user, have both settled;
\* one of them fell inside the other's window and w, the other one, found the row
Converged(ci, cp, w) ==
  /\ chains[ci].owner = "init" /\ chains[cp].owner = "push"
  /\ chains[ci].id = chains[cp].id
  /\ Done(ci) /\ Done(cp)
  /\ w \in {ci, cp} /\ ~chains[w].inWindow
  /\ \E d \in {ci, cp} \ {w} : chains[d].inWindow
  /\ Clean(w) /\ chains[w].out.kind = "ret" /\ chains[w].out.row # NoRow

\* C4 (as stated): when the pull and a SIGNED_IN for the same user U both call
\* loadProfile(U), the second inside the window of the first, and the lookup
\* succeeds, then once both have settled session and user are U's, profile is
\* the loaded row and loading is false; the null handed to the de-duplicated
\* caller does not erase the profile.
C4_PullPushConvergence ==
  \A ci, cp, w \in 1..MaxChains :
    (Converged(ci, cp, w) /\ OnlySignedIn) =>
      /\ session = chains[w].id /\ user = chains[w].id
      /\ profile = chains[w].out.row
      /\ loading = FALSE

\* the pull's load and the push's load for one user have both settled, the
\* push's having come second
C4_PushInsideWindow ==
  \E ci, cp \in 1..MaxChains : Converged(ci, cp, ci) /\ OnlySignedIn


-----------------------------------------------------------------------------
(* Properties of the initialization (SpecInit) *)

\* the global deadline of a mounted hook has elapsed: initTimeout is armed
\* when the effect runs and is otherwise cleared only by the end of initAuth
\* and by the cleanup
DeadlineElapsed == initAttempted /\ isMounted /\ AwaitsSession /\ initTimer = -1

\* C11: while the session pull has not resolved and the hook is not torn
\* down, once the global deadline has elapsed loading is false and error is
\* non-null.
C11_GlobalSafetyTimeout ==
  DeadlineElapsed => (loading = FALSE /\ error # NoMsg)

\* the retry of getSession is still pending after the global deadline
C11_RetryPendingPastDeadline ==
  DeadlineElapsed /\ pull.pc = "retrySession" /\ error = InitTimeoutMsg

\* a step that starts something the effect starts
StartsPull == pull.pc # "getSession" /\ pull'.pc = "getSession"
Subscribes == subscription' # subscription /\ subscription' # 0
ArmsTimer == initTimer = -1 /\ initTimer' # -1
ArmsPoll == poll.rem = -1 /\ poll'.rem # -1

\* C12: once the effect has run, a later trigger starts no session pull, no
\* subscription, no timer and no polling interval and changes no state; no
\* step at all starts a second pull or a second subscription.
C12_OneShotInitialization ==
  [][initAttempted =>
       /\ (triggers' # triggers =>
             UNCHANGED <<variant, hostVars, page, reported, dbVars, loaderVars, faults, providerVars, gwVars,
                         stateVars, initAttempted, isMounted, poll, pull, initTimer,
                         subscription>>)
       /\ ~StartsPull /\ ~Subscribes /\ ~ArmsTimer /\ ~ArmsPoll]_vars

\* the effect has been invoked again while the first initialization is going on
C12_TriggeredAgain ==
  triggers > 1 /\ isMounted /\ AwaitsSession

\* C13 (as stated): when the first getSession timed out or failed with an
\* "aborted" error, initAuth has made exactly one reset and one retry; it
\* never makes more than one of each.
C13_SessionPullRecovery ==
  /\ pull.nReset <= 1 /\ pull.nRetry <= 1
  /\ (pull.first = SessionTimeoutMsg \/ IncludesAborted(pull.first)) =>
       (pull.nReset = 1 /\ pull.nRetry = 1)

\* the first getSession timed out and the failure was surfaced with no retry
C13_TimeoutSurfacedAtOnce ==
  /\ pull.first = SessionTimeoutMsg /\ pull.outcome = "failed" /\ pull.nRetry = 0
  /\ isMounted /\ error = SessionTimeoutMsg /\ loading = FALSE

\* the step in which the first getSession comes back with no session and
\* without error
PulledNoSession ==
  /\ pull.pc = "getSession" /\ isMounted
  /\ pull'.outcome = "noSession"

\* no push event has reached the handler: all those emitted are still queued
NoPushHandled == events = emitted

\* C14: when the first getSession returns no session without error and no
\* push event was handled before, then session, user and profile are null,
\* error is null, loading is false and no profile load is started.
C14_NoSession ==
  [][(PulledNoSession /\ NoPushHandled) =>
       /\ session' = EmptyId /\ user' = EmptyId /\ profile' = NoRow
       /\ error' = NoMsg /\ loading' = FALSE
       /\ chains' = chains /\ reqs' = reqs]_vars

\* the pull has ended with no session
C14_EndedWithoutSession ==
  /\ pull.outcome = "noSession" /\ pull.first = NoMsg /\ isMounted /\ loading = FALSE
  /\ NoPushHandled /\ emitted # <<>>


-----------------------------------------------------------------------------
(* Properties of the fixed hook under push events (SpecCtl) *)

\* the step in which the load started by initAuth or by the SIGNED_IN handler
\* of a mounted hook fails
LoadFails(c) ==
  /\ isMounted
  /\ chains[c].pc # "done" /\ chains'[c].pc = "done"
  /\ chains'[c].owner \in {"init", "push"} /\ chains'[c].out.kind = "thr"

\* C15: when the load that follows a session fails, error is set to a
\* non-null message and loading is false, and session and user are left as
\* they were: the session of the load unless a push event changed it.
C15_ProfileFailureKeepsSession ==
  [][\A c \in 1..MaxChains : LoadFails(c) =>
       /\ error' # NoMsg /\ loading' = FALSE
       /\ session' = session /\ user' = user
       /\ (chains[c].owner = "init" /\ NoPushHandled) =>
            (session' = chains[c].id /\ user' = chains[c].id)]_vars

\* the load of initAuth has failed and the user is still signed in
C15_FailedStillSignedIn ==
  \E c \in 1..MaxChains :
    /\ chains[c].pc = "done" /\ chains[c].owner = "init" /\ chains[c].out.kind = "thr"
    /\ isMounted /\ NoPushHandled
    /\ session = "u1" /\ user = "u1" /\ error # NoMsg /\ loading = FALSE

\* the step in which the handler of a mounted hook takes the event `kinds`
Handles(kinds) ==
  /\ isMounted /\ events # <<>> /\ Head(events).event \in kinds
  /\ events' = Tail(events)

\* the last event emitted, once handled by a hook still mounted
Handled(kinds) ==
  /\ isMounted /\ emitted # <<>> /\ events = <<>>
  /\ emitted[Len(emitted)].event \in kinds

C17_NoticesChangeNothing ==
  [][Handles({"TOKEN_REFRESHED", "USER_UPDATED"}) =>
       /\ UNCHANGED <<user, profile, loading, error, chains, reqs>>
       /\ session' \in {session, Head(events).session}]_vars

\* a signed-in hook with its profile has handled a notice
C17_NoticeHandledSignedIn ==
  /\ Handled({"TOKEN_REFRESHED", "USER_UPDATED"})
  /\ session # EmptyId /\ profile # NoRow /\ loading = FALSE


-----------------------------------------------------------------------------
(* Properties of refreshProfile and of the cleanup (SpecRefresh) *)

\* the step is a call of refreshProfile()
RefreshCalled == page'.nRefresh # page.nRefresh

\* the user of the render whose refreshProfile is called next
RefreshUser == IF page.pc = "updated" THEN page.id ELSE user

\* C18: refreshProfile() called while there is no user starts no load,
\* changes no state and reports 'No user to refresh' to the telemetry sink.
C18_RefreshWithoutUser ==
  [][(RefreshCalled /\ RefreshUser = EmptyId) =>
       /\ NoUserMsg \in reported'
       /\ UNCHANGED <<stateVars, loaderVars, dbVars, gwVars, effectVars>>]_vars

\* refreshProfile() has been called with no user
C18_RefusedOnce ==
  page.nRefresh = 1 /\ NoUserMsg \in reported /\ user = EmptyId

\* the step in which the load of refreshProfile settles
RefreshEnds(c) ==
  /\ chains[c].pc # "done" /\ chains'[c].pc = "done"
  /\ chains'[c].owner = "refresh"

\* C19 (as stated): when refreshProfile() ends, loading is false; if its
\* load did not fail, profile is the row stored for the user and error is
\* null; if it failed, error is set.
C19_RefreshReplacesProfile ==
  [][\A c \in 1..MaxChains : RefreshEnds(c) =>
       /\ loading' = FALSE
       /\ IF chains'[c].out.kind = "ret"
            THEN /\ profile' \in {r \in db' : r.id_auth = chains'[c].id}
                 /\ error' = NoMsg
            ELSE error' # NoMsg]_vars

\* a refresh made while the marker of the previous load was still set has
\* ended without error and left no profile, though the row is stored
C19_RefreshErasedProfile ==
  \E c \in 1..MaxChains :
    /\ chains[c].pc = "done" /\ chains[c].owner = "refresh" /\ chains[c].suppressed
    /\ profile = NoRow /\ error = NoMsg /\ loading = FALSE
    /\ user = chains[c].id /\ maybeSingle(user) # NoRow

\* the cleanup of the effect has run
TornDown == initAttempted /\ ~isMounted

\* the step is a call of refreshProfile() or the end of one that was called
\* after the cleanup
RefreshedSince ==
  \/ RefreshCalled
  \/ \E c \in 1..MaxChains : RefreshEnds(c) /\ ~chains[c].live

\* C20 (as stated): once the cleanup has run, the safety timer and the
\* polling interval are cancelled and the subscription is released, and no
\* step changes session, user, profile, loading or error, calls of
\* refreshProfile() made after the cleanup apart.
C20_Teardown ==
  [][/\ TornDown' => (initTimer' = -1 /\ poll'.rem = -1 /\ subscription' = 0)
     /\ (TornDown /\ ~RefreshedSince) => UNCHANGED stateVars]_vars

\* the cleanup has run while the load of a refreshProfile() is pending
C20_RefreshInFlightAtTeardown ==
  /\ TornDown /\ loading
  /\ \E c \in 1..MaxChains :
       chains[c].owner = "refresh" /\ chains[c].pc # "done" /\ chains[c].live

-----------------------------------------------------------------------------
(* Claims about lib/supabase, checked under SpecGw *)

\* the calls of getSupabaseBrowser() that returned a handle
Returned(i) == calls[i].op = "get" /\ calls[i].out # 0

\* no call of one of the operations ops was recorded between calls i and j
NoneBetween(i, j, ops) == \A k \in (i + 1)..(j - 1) : calls[k].op \notin ops

\* two calls of getSupabaseBrowser() with none of ops between them return
\* the same handle, the later one without constructing it
SameHandle(ops) ==
  \A i, j \in DOMAIN calls :
    (i < j /\ Returned(i) /\ Returned(j) /\ NoneBetween(i, j, ops))
      => (calls[j].out = calls[i].out /\ ~calls[j].made)

\* a handle is constructed only by a call of getSupabaseBrowser() that finds
\* none cached, a page's call or the one at the head of signOut()
ConstructedLazily ==
  created' # created =>
    /\ browserClient = 0 /\ created' = created + 1 /\ browserClient' = created'
    /\ \/ /\ calls' = Append(calls, Call("get", created', NoMsg, TRUE, TRUE))
       \/ /\ signingOut.pc = "idle" /\ signingOut'.pc = "api"
          /\ signingOut'.client = created'

\* the cached handle is dropped only by a step that ends one of ops
DiscardedOnlyBy(ops) ==
  (browserClient # 0 /\ browserClient' = 0) =>
    /\ Len(calls') = Len(calls) + 1
    /\ calls'[Len(calls')].op \in ops

\* C21 (as stated): the handle is constructed on the first call of
\* getSupabaseBrowser(), two calls with no resetSupabaseClient() between them
\* return the same handle without reconstructing it, and only
\* resetSupabaseClient() discards the cached handle.
C21_DiscardedOnlyByReset ==
  /\ []SameHandle({"reset"})
  /\ [][ConstructedLazily /\ DiscardedOnlyBy({"reset"})]_vars

\* C21 (amended): the same, with signOut() counted among the operations
\* that discard the cached handle: two calls with neither a
\* resetSupabaseClient() nor the end of a signOut() between them return the
\* same handle, and only these two operations discard it.
C21_SingletonHandle ==
  /\ []SameHandle({"reset", "signOut"})
  /\ [][ConstructedLazily /\ DiscardedOnlyBy({"reset", "signOut"})]_vars

\* after a signOut() has ended, a call constructed a handle and a later call
\* returned that handle
C21_SameHandleAfterSignOut ==
  \E i, j, k \in DOMAIN calls :
    /\ i < j /\ j < k
    /\ calls[i].op = "signOut"
    /\ Returned(j) /\ calls[j].made
    /\ Returned(k) /\ calls[k].out = calls[j].out /\ ~calls[k].made

\* the URL or the anonymous key is absent from the build
ConfigMissing == ~config.url \/ ~config.key

\* the call threw the error of a missing parameter, or, where there is no
\* window, the error of a call on the server
ConfigurationError(i) ==
  /\ calls[i].out = 0 /\ ~calls[i].made
  /\ calls[i].err = IF ~config.window THEN ServerSideMsg
                    ELSE IF ~config.url THEN UrlRequiredMsg ELSE KeyRequiredMsg

\* C22: while the URL or the anonymous key is absent, every call of
\* getSupabaseBrowser() throws (the error of the missing parameter in a
\* browser), and no handle is ever constructed or cached.
C22_ConfigurationError ==
  ConfigMissing =>
    /\ \A i \in DOMAIN calls : calls[i].op = "get" => ConfigurationError(i)
    /\ browserClient = 0 /\ created = 0

\* in a browser without the anonymous key, getSupabaseBrowser() was called
\* twice, and a second time after a reset
C22_CalledTwiceWithoutKey ==
  /\ config.window /\ config.url /\ ~config.key
  /\ \E i, j, k \in DOMAIN calls :
       /\ i < j /\ j < k
       /\ calls[i].op = "get" /\ calls[j].op = "reset" /\ calls[k].op = "get"
       /\ calls[k].err = KeyRequiredMsg

\* the keys under which auth tokens are persisted: the application's
\* storage key and the provider's own
AuthKeys == {AppKey, ProviderKey, LegacyKey}

\* the step is a page's call of resetSupabaseClient()
ResetCalled == calls' = Append(calls, Call("reset", 0, NoMsg, FALSE, TRUE))

\* the step is a page's call of getSupabaseBrowser() that returns a handle
GetReturns ==
  /\ Len(calls') = Len(calls) + 1
  /\ calls'[Len(calls')].op = "get" /\ calls'[Len(calls')].out # 0

\* the handles returned to the pages so far
HandlesReturned == {calls[i].out : i \in {k \in DOMAIN calls : Returned(k)}}

\* C23: resetSupabaseClient() leaves no cached handle and, in a browser, none
\* of the keys that hold auth tokens; a getSupabaseBrowser() that finds no
\* cached handle constructs one that no earlier call has returned, and a
\* call that finds one cached returns it.
C23_Reset ==
  [][/\ ResetCalled => /\ browserClient' = 0
                       /\ config.window => storage' \cap AuthKeys = {}
     /\ GetReturns =>
          LET call == calls'[Len(calls')]
          IN  IF browserClient = 0
                THEN /\ call.made /\ call.out \notin HandlesReturned
                     /\ browserClient' = call.out
                ELSE /\ ~call.made /\ call.out = browserClient
                     /\ browserClient' = browserClient]_vars

\* a handle was returned, then the client was reset, then a call constructed
\* another handle and the call after it returned that one
C23_RebuiltAfterReset ==
  /\ Len(calls) = 4
  /\ Returned(1) /\ calls[2].op = "reset"
  /\ Returned(3) /\ calls[3].made /\ calls[3].out # calls[1].out
  /\ Returned(4) /\ calls[4].out = calls[3].out
  /\ storage = {ForeignKey}

-----------------------------------------------------------------------------
(* Claims about the loader's arguments and markers, checked under SpecArg *)

\* a call of loadProfile with an empty identity has settled
EmptyIdSettled(c) ==
  chains[c].pc = "done" /\ chains[c].id = EmptyId /\ ~chains[c].suppressed

\* C24 (as stated): loadProfile called with an empty identity throws to its
\* caller, and has sent neither a lookup nor a provisioning request.
C24_EmptyIdentity ==
  \A c \in 1..MaxChains :
    EmptyIdSettled(c) =>
      /\ chains[c].out.kind = "thr"
      /\ chains[c].nLookup = 0 /\ chains[c].nProv = 0

\* a call with an empty identity has returned null to its caller
C24_EmptyIdReturnedNull ==
  \E c \in 1..MaxChains :
    EmptyIdSettled(c) /\ chains[c].out = Ret(NoRow) /\ MissingIdMsg \in reported

\* the markers a call may add
MarkerKeys ==
  {cacheKey(id, l) : id \in AuthIds \cup {EmptyId}, l \in 0..maxRetries}

\* C25 (as stated): every marker is removed in the end, whatever the outcome
\* of the attempt that added it.
C25_MarkersExpire ==
  \A k \in MarkerKeys : (k \in markers) ~> (k \notin markers)

\* a marker is present with no eviction timer armed for it and no call
\* running that would arm one
C25_MarkerWithoutTimer ==
  \E k \in markers :
    /\ \A t \in timers : t.key # k
    /\ \A c \in 1..MaxChains : chains[c].pc \in {"idle", "done"}

-----------------------------------------------------------------------------
(* Claims about the provisioners' answers, checked under SpecProv *)

\* the row a provisioner's answer carries, under the key it uses
ReturnedRow(q) == IF q.prov = "edge" THEN q.resp.profile ELSE q.resp.user

\* request i is answered by this step from its existence check, the
\* datastore having answered the check with a row
AnsweredFromCheck(i) ==
  /\ reqs[i].pc = "check" /\ reqs'[i].pc = "sent" /\ ~reqs'[i].dbError
  /\ maybeSingle(reqs[i].id_auth) # NoRow

\* C26 (as stated): a request whose identity has a row at the existence check
\* is answered with that row as a success flagged existed = true, and the
\* datastore is left as it was.
C26_ReturnsExisting ==
  [][\A i \in DOMAIN reqs :
       AnsweredFromCheck(i) =>
         /\ ResponseOk(reqs'[i].resp) /\ reqs'[i].resp.ok
         /\ ReturnedRow(reqs'[i]) = maybeSingle(reqs[i].id_auth)
         /\ reqs'[i].resp.existed
         /\ db' = db]_vars

\* link-profile has answered a request with the stored row and no flag
C26_LinkAnswersUnflagged ==
  \E i \in DOMAIN reqs :
    /\ reqs[i].prov = "link" /\ reqs[i].pc = "sent" /\ reqs[i].resp.ok
    /\ reqs[i].resp.user = maybeSingle(reqs[i].id_auth)
    /\ reqs[i].resp.user # NoRow /\ reqs[i].resp.status = 200
    /\ ~reqs[i].resp.existed

-----------------------------------------------------------------------------
(* Claims about the validation of provisioning requests, checked under *)
(* SpecArg                                                             *)

\* the request came without an identity or without an email
LacksField(q) == q.id_auth = EmptyId \/ q.email = ""

\* the request was refused with status 400 and never reached the datastore
Refused(q) ==
  /\ q.pc = "sent" /\ q.resp.status = 400 /\ ~q.resp.ok
  /\ ReturnedRow(q) = NoRow /\ ~q.dbError /\ ~q.raced

\* a top-level load has settled whose last provisioning request carried no
\* email
SettledWithoutEmail(c) ==
  /\ chains[c].pc = "done" /\ ~chains[c].suppressed
  /\ \E i \in DOMAIN reqs :
       /\ reqs[i].owner = c /\ reqs[i].email = ""
       /\ \A j \in DOMAIN reqs : reqs[j].owner = c => j <= i

-----------------------------------------------------------------------------
(* Claims about the hooks under every build, checked under SpecBoot *)

\* initAuth fails in this step while the hook is mounted
InitFailsMounted == pull.outcome # "failed" /\ pull'.outcome = "failed" /\ isMounted'

\* a load awaited by the controller throws in this step while the hook is
\* mounted
LoadFailsMounted ==
  \E c \in 1..MaxChains :
    /\ chains[c].pc # "done" /\ chains'[c].pc = "done"
    /\ chains'[c].out.kind = "thr" /\ chains'[c].owner # "caller"
    /\ isMounted

\* C28 (as stated): no error leaves the hook as an uncaught exception, and
\* every failure of the client construction, of the session pull or of a
\* load that the mounted hook handles sets error.
C28_ErrorContainment ==
  /\ [](uncaught = {})
  /\ [][(InitFailsMounted \/ LoadFailsMounted) => error' # NoMsg]_vars

\* the effect of hooks/useAuth.js has thrown: the hook stays as it was
\* constructed, loading with no error
C28_EscapedFromEffect ==
  /\ variant = "original" /\ triggers = 1
  /\ uncaught # {} /\ uncaught \subseteq {UrlRequiredMsg, KeyRequiredMsg}
  /\ loading /\ error = NoMsg /\ ~isMounted /\ subscription = 0

-----------------------------------------------------------------------------
(* Claims about telemetry and the polling interval, checked under SpecInit *)

\* the step sets error to a message
SetsError == error' # NoMsg /\ error' # error

\* C29 (as stated): whenever the controller sets error to a message, that
\* message has been handed to the telemetry sink by then.
C29_NoErrorDropped ==
  [][SetsError => error' \in reported']_vars

\* initTimeout has set error while initAuth was still running, and telemetry
\* has received nothing
C29_TimeoutNotReported ==
  /\ error = InitTimeoutMsg /\ ~loading /\ isMounted
  /\ pull.pc \in {"retrySession", "loading"}
  /\ reported = {}

\* the polling interval is cancelled
PollStopped == poll.rem = -1

\* the calls of the loader made by the polling callback so far
PollLoads == {c \in 1..MaxChains : chains[c].owner = "poll"}

\* C30 (as stated): the polling interval is cancelled once a profile is
\* loaded, once its counter has passed 10, and once the cleanup has run; it
\* calls the loader at most 10 times and changes nothing after the cleanup.
C30_PollingBounded ==
  /\ [](profile # NoRow => PollStopped)
  /\ [](poll.count > maxPolls => PollStopped)
  /\ [](TornDown => PollStopped)
  /\ [](poll.count <= maxPolls + 1 /\ Cardinality(PollLoads) <= maxPolls)
  /\ [][TornDown => poll' = poll]_vars

\* the interval has fired with the profile loaded, and is armed again
C30_FiresAfterProfileLoaded ==
  /\ isMounted /\ profile # NoRow /\ ~loading /\ error = NoMsg
  /\ poll.count >= 1 /\ poll.rem > 0
  /\ PollLoads = {}

\* the polling callback runs in this step within its budget while the state
\* has a session, no profile and loading set
PollTickAwaitingProfile ==
  /\ poll.rem = 0 /\ isMounted /\ poll.count < maxPolls
  /\ poll'.count = poll.count + 1
  /\ session # EmptyId /\ profile = NoRow /\ loading

\* the polling callback calls loadProfile(id) in this step
PollInvokes(id) ==
  \E c \in 1..MaxChains :
    /\ chains[c].pc = "idle"
    /\ chains'[c].owner = "poll" /\ chains'[c].id = id

\* a load made by the polling callback returns a profile in this step
PollLoadReturnsProfile ==
  \E c \in 1..MaxChains :
    /\ chains[c].owner = "poll" /\ chains[c].pc # "done" /\ chains'[c].pc = "done"
    /\ chains'[c].out.kind = "ret" /\ chains'[c].out.row # NoRow
    /\ isMounted

\* C31 (as stated): while the state has a session, no profile and loading
\* set, each tick of the polling interval within its budget calls the loader
\* for the session's user, and a load of the polling callback that returns a
\* profile sets profile, clears error and clears loading.
C31_PollingRecovers ==
  /\ [][PollTickAwaitingProfile => PollInvokes(session)]_vars
  /\ [][PollLoadReturnsProfile => profile' # NoRow /\ error' = NoMsg /\ ~loading']_vars

\* the interval has fired while initAuth was awaiting the profile of the
\* session's user, and the loader has not been called again
C31_TickWithoutLoad ==
  /\ isMounted /\ HasPoll(variant)
  /\ session = "u1" /\ profile = NoRow /\ loading
  /\ pull.pc = "loading"
  /\ poll.count >= 1 /\ poll.count <= maxPolls
  /\ PollLoads = {}

-----------------------------------------------------------------------------
(* Claims about provisioning failures, checked under SpecRetry *)

\* the provisioning requests sent by chain c
SentBy(c) == {i \in DOMAIN reqs : reqs[i].owner = c}

\* the answer to request i is a failure: a non-ok response or ok = false
FailureAnswer(i) ==
  reqs[i].pc = "sent" /\ (~ResponseOk(reqs[i].resp) \/ ~reqs[i].resp.ok)

\* the frame of chain c that awaits a provisioning call receives a failure
\* answer in this step
ProvFailureArrives(c) ==
  /\ chains[c].pc = "prov" /\ FailureAnswer(chains[c].req)
  /\ chains'[c] # chains[c] /\ faults' = faults

\* the error a failure answer is turned into
FailureOf(c) ==
  Thr(MessageOr(reqs[chains[c].req].resp.error, FailedMsg(variant)))

\* the caller of chain c is the mounted controller
ShownByCaller(c) == chains[c].owner \in {"init", "push", "refresh"} /\ isMounted

\* C32 (as stated): when the provisioning call of a load is answered with a
\* failure, the top-level load settles with that failure in the same step,
\* so it makes no further provisioning call, and the controller that awaits
\* it shows the failure as error.
C32_NoAutomaticRetry ==
  [][\A c \in 1..MaxChains :
       ProvFailureArrives(c) =>
         /\ chains'[c].pc = "done" /\ chains'[c].out = FailureOf(c)
         /\ ShownByCaller(c) => error' = FailureOf(c).msg]_vars

\* one top-level load of the edge-only hook has called the edge function
\* three times, each call answered with a refusal, before it threw
C32_ThreeProvisioningCalls ==
  /\ variant = "edgeonly"
  /\ chains[1].pc = "done" /\ chains[1].out = Thr(EdgeMissingMsg)
  /\ Cardinality(SentBy(1)) = maxRetries + 1
  /\ \A i \in SentBy(1) : FailureAnswer(i)
  /\ faults = MaxFaults

-----------------------------------------------------------------------------
(* Claims about overlapping pull, push and loads, checked under SpecCtl *)

\* C33 (as stated): in every reachable state profile is non-null only if
\* session and user are non-null; a load that resumes after a SIGNED_OUT has
\* cleared the state does not set profile.
C33_StaleLoadsIgnored ==
  profile # NoRow => session # EmptyId /\ user # EmptyId

\* a load started by the pull or by a SIGNED_IN has returned a row after the
\* SIGNED_OUT handler cleared the state: the profile is set with no session
C33_ProfileWithoutSession ==
  /\ isMounted /\ events = <<>>
  /\ \E k \in DOMAIN emitted : emitted[k].event = "SIGNED_OUT"
  /\ session = EmptyId /\ user = EmptyId /\ authSession = EmptyId
  /\ profile # NoRow /\ profile.id_auth = "u1"
  /\ \E c \in 1..MaxChains :
       /\ chains[c].owner \in {"init", "push"} /\ chains[c].pc = "done"
       /\ chains[c].out = Ret(profile)

\* initAuth is running
InitInFlight == pull.pc \notin {"idle", "done"}

\* a load awaited by initAuth, by the SIGNED_IN handler or by refreshProfile
\* has not settled
LoadInFlight ==
  \E c \in 1..MaxChains :
    /\ chains[c].owner \in {"init", "push", "refresh"}
    /\ chains[c].pc \notin {"idle", "done"}

\* C38 (as stated): before teardown, loading = false implies that neither
\* initAuth nor a load started by a push event or by refreshProfile is
\* still in flight.
C38_LoadingReflectsWork ==
  isMounted /\ ~loading => ~InitInFlight /\ ~LoadInFlight

\* initAuth has finished and cleared loading while the load started by a
\* SIGNED_IN event is still awaiting the datastore
C38_ClearedWhilePushLoads ==
  /\ isMounted /\ ~loading /\ error = NoMsg
  /\ pull.pc = "done" /\ pull.outcome \in {"session", "noSession"}
  /\ session = "u1" /\ profile = NoRow
  /\ \E c \in 1..MaxChains : chains[c].owner = "push" /\ chains[c].pc = "lookup"

-----------------------------------------------------------------------------
(* Claims about the re-invoked effect, checked under SpecRemountFair *)

\* the host runtime has run the effect, its cleanup and the effect again
Remounted == initAttempted /\ triggers >= 2 /\ ~isMounted

\* the state reflects what the pull found at the provider
ReflectsPull ==
  /\ pull.pc = "done"
  /\ pull.outcome = "session" => session # EmptyId /\ user = session
  /\ pull.outcome = "noSession" => session = EmptyId /\ user = EmptyId

\* C34 (as stated): once the effect has been run, cleaned up and run again
\* on the same instance, and every provider call resolves or times out,
\* loading eventually becomes false with the state reflecting the pulled
\* session.
C34_RemountDoesNotWedge ==
  [](Remounted => <>(~loading /\ ReflectsPull))

\* after the re-mount everything has settled and nothing is pending, yet
\* the hook is still loading
C34_WedgedAfterRemount ==
  /\ Remounted /\ loading /\ error = NoMsg
  /\ pull.pc = "done" /\ pull.outcome = "unmounted"
  /\ initTimer = -1 /\ poll.rem = -1 /\ subscription = 0
  /\ timers = {} /\ \A c \in 1..MaxChains : chains[c].pc = "idle"

-----------------------------------------------------------------------------
(* Claims about the handle used after a reset, checked under SpecInit *)

\* initAuth resets the client and retries the session pull in this step
ResetsAndRetries == pull.pc = "getSession" /\ pull'.pc = "retrySession"

\* C35 (as stated): the session pull retried after a reset is issued on a
\* handle constructed after the reset, never on the discarded one, and from
\* then on the listener and the loader use the same current handle.
C35_RecoveryUsesRebuilt ==
  /\ [][ResetsAndRetries => pull'.client > created /\ pull'.client = browserClient']_vars
  /\ [](pull.nReset > 0 /\ subscription # 0 /\ browserClient # 0
          => subscription = browserClient)

\* the retried pull was answered on the discarded handle, on which the
\* listener is still registered, while the loader has built a second one
C35_RetriedOnDiscardedHandle ==
  /\ isMounted /\ pull.nReset = 1 /\ pull.nRetry = 1
  /\ pull.outcome = "session" /\ pull.client = 1 /\ subscription = 1
  /\ created = 2 /\ browserClient = 2

-----------------------------------------------------------------------------
(* Claims about deadlines, checked under SpecHangFair *)

\* C36 (as stated): every call of the provider, of the datastore and of the
\* provisioners is raced against a deadline, so the session pull that was
\* started and every loadProfile call that was made eventually settle,
\* whether or not the other side answers.
C36_EveryCallBounded ==
  /\ [](pull.pc # "idle" => <>(pull.pc = "done"))
  /\ \A c \in 1..MaxChains : [](chains[c].pc # "idle" => <>(chains[c].pc = "done"))

\* every timer has fired and every deadline has expired, and a load is
\* still awaiting auth.getUser()
C36_AwaitingGetUserForEver ==
  /\ isMounted /\ initTimer = -1 /\ timers = {} /\ poll.rem = -1
  /\ pull.pc = "loading" /\ ~loading /\ error = InitTimeoutMsg
  /\ \E c \in 1..MaxChains : chains[c].pc = "getUser" /\ chains[c].owner = "init"

-----------------------------------------------------------------------------
(* Claims about two users signing in, checked under SpecUsers *)

\* C37 (as stated): in every reachable state where user and profile are both
\* non-null, the profile is the one of that user: profile.id_auth = user.id.
C37_ProfileMatchesUser ==
  user # EmptyId /\ profile # NoRow => profile.id_auth = user

\* u2 signed in while the load of u1 was in flight; u2's load returned
\* first, then u1's: every load has settled and the profile shown for u2 is
\* u1's
C37_ProfileOfEarlierUser ==
  /\ isMounted /\ events = <<>> /\ authSession = "u2"
  /\ session = "u2" /\ user = "u2" /\ ~loading /\ error = NoMsg
  /\ profile # NoRow /\ profile.id_auth = "u1"
  /\ \A c \in 1..MaxChains : chains[c].pc = "done" /\ chains[c].out.kind = "ret"
  /\ \E c \in 1..MaxChains : chains[c].id = "u2" /\ chains[c].out.row.id_auth = "u2"

-----------------------------------------------------------------------------
(* Claims about the error next to a loaded profile, checked under SpecInit *)

\* a load started by the pull or by a SIGNED_IN event returns a row in this
\* step while the hook is mounted
LoadSucceeds(c) ==
  /\ chains[c].owner \in {"init", "push"}
  /\ chains[c].pc \notin {"idle", "done"} /\ chains'[c].pc = "done"
  /\ chains'[c].out.kind = "ret" /\ chains'[c].out.row # NoRow
  /\ isMounted

\* C39 (as stated): whenever a load started by the pull or by a SIGNED_IN
\* event completes successfully and sets profile, error is null in the
\* resulting state.
C39_ReadyExcludesError ==
  [][\A c \in 1..MaxChains :
       LoadSucceeds(c) => profile' = chains'[c].out.row /\ error' = NoMsg]_vars

\* initTimeout fired while initAuth was awaiting the load; the load then
\* returned the row: the profile is shown next to the timeout error
C39_ProfileNextToTimeout ==
  /\ isMounted /\ pull.pc = "done" /\ pull.outcome = "session"
  /\ profile # NoRow /\ profile.id_auth = session /\ ~loading
  /\ error = InitTimeoutMsg

-----------------------------------------------------------------------------
(* Claims about fetchWithRetry and its helpers, checked under SpecFetch *)

\* every error fn has thrown so far includes 'aborted'
AllAborted(errs) == \A k \in DOMAIN errs : IncludesAborted(errs[k])

\* fetchWithRetry has settled
FetchDone == fetching.pc = "done" /\ fetching.out # NoOut

\* C40: fetchWithRetry invokes fn at most maxRetries + 1 times; it returns
\* what the first successful invocation resolved with; an error whose
\* message does not include 'aborted' is thrown again at once, with no
\* further invocation; when maxRetries + 1 invocations have failed with
\* 'aborted' the last error is thrown.  getCurrentSession() and
\* getCurrentAuthUser() never throw and return null on any failure.
C40_FetchWithRetry ==
  /\ fetching.n <= fetching.max + 1
  /\ FetchDone /\ fetching.out.kind = "ret" =>
       /\ fetching.out = fetching.got
       /\ fetching.n = Len(fetching.errs) + 1
  /\ \A k \in DOMAIN fetching.errs :
       ~IncludesAborted(fetching.errs[k]) =>
         /\ FetchDone /\ fetching.out = Err(fetching.errs[k])
         /\ k = Len(fetching.errs) /\ fetching.n = k
  /\ Len(fetching.errs) = fetching.max + 1 /\ AllAborted(fetching.errs) =>
       /\ FetchDone /\ fetching.out = Err(fetching.errs[fetching.max + 1])
       /\ fetching.n = fetching.max + 1
  /\ fetching.op \in {"session", "user"} /\ fetching.pc = "done" =>
       /\ fetching.ret.kind = "ret"
       /\ fetching.out = NoOut \/ fetching.out.kind = "thr" => fetching.ret = Val(Null)
       /\ FetchDone /\ fetching.out.kind = "ret" => fetching.ret = fetching.out

\* getCurrentSession() has returned null after three invocations that all
\* failed with 'aborted', while the provider holds a session
C40_NullAfterThreeAborted ==
  /\ fetching.op = "session" /\ fetching.pc = "done"
  /\ fetching.max = DefaultMaxRetries /\ fetching.n = DefaultMaxRetries + 1
  /\ fetching.errs = <<AbortedMsg, AbortedMsg, AbortedMsg>>
  /\ fetching.out = Err(AbortedMsg) /\ fetching.ret = Val(Null)
  /\ authSession = "u1" /\ faults = 0

=============================================================================
